---- MODULE Spec2Model ----
(***************************************************************************)
(* Invoice reconciliation: the ledger reader, the PO matcher, the          *)
(* validation orchestrator, the ledger writer and the two processing       *)
(* pipelines (CLI `process` and the web app) of invoice-automation.        *)
(*                                                                         *)
(* Text is a sequence of symbols.  A symbol is a one-character string, or  *)
(* an opaque word standing for a run of letters the code never looks       *)
(* inside (a store name, the fixed part of a column header).  Money is an  *)
(* integer number of pence.  Python's None is the empty sequence: an       *)
(* optional record is a sequence of length 0 or 1.                         *)
(***************************************************************************)
EXTENDS Integers, Sequences, FiniteSets, TLC

\* ------------------------------------------------------------------ bounds
MaxRows == 2      \* data rows of the ledger sheet
MaxBatch == 2     \* invoices (PDF files) of one run

\* --------------------------------------------------------------- text
NL == "\n"
Whitespace == {" ", NL}

\* str.upper(), symbol by symbol
UpperSym(c) ==
  CASE c = "c" -> "C"
    [] c = "i" -> "I"
    [] c = "po" -> "PO"
    [] c = "cjl" -> "CJL"
    [] c = "Invoice No" -> "INVOICE NO"
    [] OTHER -> c

upper(s) == [k \in 1..Len(s) |-> UpperSym(s[k])]

RECURSIVE lstrip(_)
lstrip(s) ==
  IF s = <<>> THEN s
  ELSE IF Head(s) \in Whitespace THEN lstrip(Tail(s)) ELSE s

RECURSIVE rstrip(_)
rstrip(s) ==
  IF s = <<>> THEN s
  ELSE IF s[Len(s)] \in Whitespace THEN rstrip(SubSeq(s, 1, Len(s) - 1)) ELSE s

\* str.strip()
strip(s) == rstrip(lstrip(s))

\* `sub in s`
contains(s, sub) ==
  \E k \in 0..(Len(s) - Len(sub)) : SubSeq(s, k + 1, k + Len(sub)) = sub

\* s.split('\n'): the pieces between newlines, empty pieces included
RECURSIVE split_nl(_, _)
split_nl(s, cur) ==
  IF s = <<>> THEN <<cur>>
  ELSE IF Head(s) = NL THEN <<cur>> \o split_nl(Tail(s), <<>>)
  ELSE split_nl(Tail(s), Append(cur, Head(s)))

\* truthiness of a str
truthy(s) == s # <<>>

\* ------------------------------------------------------------- numbers
Digits == <<"0", "1", "2", "3", "4", "5", "6", "7", "8", "9">>
IsDigit(c) == \E d \in 1..10 : Digits[d] = c
DigitVal(c) == (CHOOSE d \in 1..10 : Digits[d] = c) - 1

RECURSIVE DigitsVal(_, _)
DigitsVal(s, acc) ==
  IF s = <<>> THEN acc ELSE DigitsVal(Tail(s), acc * 10 + DigitVal(Head(s)))

AllDigits(s) == \A k \in 1..Len(s) : IsDigit(s[k])

\* Decimal(s) for the literals a ledger cell holds: digits, optionally
\* followed by "." and one or two digits.  <<>> when Decimal raises.
DecimalOf(s) ==
  LET dots == {k \in 1..Len(s) : s[k] = "."}
  IN IF dots = {}
     THEN IF s # <<>> /\ AllDigits(s) THEN <<DigitsVal(s, 0) * 100>> ELSE <<>>
     ELSE LET d == CHOOSE k \in dots : TRUE
              ip == SubSeq(s, 1, d - 1)
              fp == SubSeq(s, d + 1, Len(s))
          IN IF Cardinality(dots) = 1 /\ ip # <<>> /\ AllDigits(ip)
                /\ AllDigits(fp) /\ Len(fp) <= 2
             THEN <<DigitsVal(ip, 0) * 100
                    + (IF Len(fp) = 0 THEN 0
                       ELSE IF Len(fp) = 1 THEN DigitVal(fp[1]) * 10
                       ELSE DigitsVal(fp, 0))>>
             ELSE <<>>

RECURSIVE NatText(_)
NatText(n) ==
  IF n < 10 THEN <<Digits[n + 1]>>
  ELSE Append(NatText(n \div 10), Digits[(n % 10) + 1])

\* the text a numeric cell holding float(amount) reads back as (dtype=str)
AmountText(p) ==
  NatText(p \div 100) \o <<".">> \o
  (IF p % 10 = 0 THEN <<Digits[((p % 100) \div 10) + 1]>>
   ELSE <<Digits[((p % 100) \div 10) + 1], Digits[(p % 10) + 1]>>)

\* ------------------------------------------------------------ the ledger
(* A worksheet is a grid: a sequence of grid rows (title rows, the header  *)
(* row, data rows), each with one text cell per column, a fill marker and  *)
(* the set of columns whose cell is a read-only merged cell.  A workbook   *)
(* maps each sheet name it holds to its grid.                              *)
NCols == 9
H_PO == <<"PO">>
H_STORE == <<"STORE">>
H_COMPANY == <<"COMPANY NAME">>
H_QUOTE == <<"QUOTE OVER", " ", "£200">>
H_AUTH == <<"AUTHORISED">>
H_INVNO == <<"INVOICE NO", ".">>
H_SIGNED == <<"INVOICE SIGNED">>
H_AMOUNT == <<"INVOICE AMOUNT", " ", "(EX VAT)">>
H_NOMINAL == <<"NOMINAL CODE">>

\* ' '.join(s.split()): runs of whitespace become one space, ends trimmed
RECURSIVE collapse(_, _)
collapse(s, pending) ==
  IF s = <<>> THEN <<>>
  ELSE IF Head(s) \in Whitespace THEN collapse(Tail(s), TRUE)
  ELSE (IF pending THEN <<" ">> ELSE <<>>) \o <<Head(s)>> \o collapse(Tail(s), FALSE)

startswith(s, pre) == Len(s) >= Len(pre) /\ SubSeq(s, 1, Len(pre)) = pre

_normalize_column_name(col_name) ==
  LET s == collapse(lstrip(col_name), FALSE)
      up == upper(s)
  IN IF startswith(up, <<"QUOTE OVER">>) THEN H_QUOTE
     ELSE IF up = <<"ORDER DETAILS">> THEN <<"ORDER DETAILS">>
     ELSE IF up = <<"SUPPLIER">> THEN <<"SUPPLIER">>
     ELSE IF up = H_COMPANY THEN H_COMPANY
     ELSE s

HeaderScanRows == 20

\* index (0-based) of the first of the first 20 rows holding a cell equal
\* to 'PO' after strip().upper(); -1 when there is none
IsPOCell(cell) == strip(upper(cell)) = H_PO

Min(S) == CHOOSE x \in S : \A y \in S : x <= y

MinOr(S, none) == IF S = {} THEN none ELSE Min(S)

ReaderHeaderRow(grid) ==
  MinOr({r \in 1..Len(grid) :
           r <= HeaderScanRows /\ \E k \in 1..Len(grid[r].c) : IsPOCell(grid[r].c[k])},
        0) - 1

\* The DataFrame read with header row h: column names and the grid rows
\* below the header; data[i] is the row pandas indexes i - 1.  Without a
\* detected header (h = -1) the first row is the header, names as written.
DataFrame(grid, h) ==
  IF h = -1
  THEN [columns |-> grid[1].c, data |-> Tail(grid)]
  ELSE [columns |-> [k \in 1..Len(grid[h + 1].c) |-> _normalize_column_name(grid[h + 1].c[k])],
        data |-> SubSeq(grid, h + 2, Len(grid))]

\* <<>> when the sheet cannot be read (ok = FALSE: pd.read_excel raised)
\* or is not in the workbook
_read_sheet_with_header_detection(wbk, sheet_name, ok) ==
  IF ~ok \/ sheet_name \notin DOMAIN wbk THEN <<>>
  ELSE IF wbk[sheet_name] = <<>> THEN <<>>
  ELSE <<DataFrame(wbk[sheet_name], ReaderHeaderRow(wbk[sheet_name]))>>

\* row.get(name): the cell under the first column named exactly `name`
HasColumn(df, name) == \E k \in 1..Len(df.columns) : df.columns[k] = name
Get(df, row, name) ==
  IF HasColumn(df, name)
  THEN row.c[Min({k \in 1..Len(df.columns) : df.columns[k] = name})]
  ELSE <<>>

_safe_str(value) == strip(value)

FirstLine(s) == IF contains(s, <<NL>>) THEN strip(split_nl(s, <<>>)[1]) ELSE s

_safe_decimal(value) ==
  DecimalOf(SelectSeq(FirstLine(strip(value)), LAMBDA c : c \notin {",", "£"}))

Or(a, b) == IF truthy(a) THEN a ELSE b

\* _safe_str(row.get(name))
Field(df, row, name) == _safe_str(Get(df, row, name))

\* PORecord built from a DataFrame row.  (PORecord as declared has no
\* company_name field; the reader passes one, so the record carries it.)
_row_to_po_record(df, row, sheet_name, row_index) ==
  [po_number |-> Field(df, row, H_PO),
   sheet_name |-> sheet_name,
   row_index |-> row_index,
   store |-> Field(df, row, H_STORE),
   quote_over_200 |-> Field(df, row, H_QUOTE),
   authorized |-> Field(df, row, H_AUTH),
   invoice_no |-> Field(df, row, H_INVNO),
   invoice_amount |-> _safe_decimal(Get(df, row, H_AMOUNT)),
   nominal_code |-> Field(df, row, H_NOMINAL),
   company_name |-> Or(Field(df, row, H_COMPANY), Field(df, row, <<"SUPPLIER">>))]

\* PORecord.is_invoiced
is_invoiced(po_record) == truthy(strip(po_record.invoice_no))

\* the record of the first of the rows `hits` (positions in df.data)
RecordAt(df, sheet_name, first) ==
  IF first = 0 THEN <<>>
  ELSE <<_row_to_po_record(df, df.data[first], sheet_name, first - 1)>>

\* variant: the PO cell must equal the key
FindPoIn_exact(df, po_clean, sheet_name) ==
  IF ~HasColumn(df, H_PO) THEN <<>>
  ELSE RecordAt(df, sheet_name,
                MinOr({r \in 1..Len(df.data) :
                         upper(Get(df, df.data[r], H_PO)) = po_clean}, 0))

FindPoIn(df, po_clean, sheet_name) ==
  IF ~HasColumn(df, H_PO) THEN <<>>
  ELSE RecordAt(df, sheet_name,
                MinOr({r \in 1..Len(df.data) :
                         contains(upper(Get(df, df.data[r], H_PO)), po_clean)}, 0))

FindPoRead(rd, po_number, sheet_name) ==
  IF ~truthy(strip(po_number)) THEN <<>>
  ELSE IF rd = <<>> THEN <<>>
  ELSE FindPoIn(rd[1], upper(strip(po_number)), sheet_name)

\* ExcelReader.find_po_record: first row whose PO cell contains the key
Reader_find_po_record(wbk, po_number, sheet_name, ok) ==
  FindPoRead(_read_sheet_with_header_detection(wbk, sheet_name, ok), po_number, sheet_name)

\* the invoice numbers of a cell: its non-blank lines, trimmed, upper-cased
PartsOf(lines) ==
  {upper(strip(lines[n])) : n \in {m \in 1..Len(lines) : truthy(strip(lines[m]))}}

CellHasInvoice(cell_val, inv_clean) ==
  truthy(cell_val) /\ cell_val # <<"nan">>
  /\ inv_clean \in PartsOf(split_nl(cell_val, <<>>))

FindInvIn(df, inv_col, inv_clean, sheet_name) ==
  IF inv_col = 0 THEN <<>>
  ELSE RecordAt(df, sheet_name,
                MinOr({r \in 1..Len(df.data) :
                         CellHasInvoice(strip(df.data[r].c[inv_col]), inv_clean)}, 0))

FindInvRead(rd, invoice_number, sheet_name) ==
  IF ~truthy(strip(invoice_number)) THEN <<>>
  ELSE IF rd = <<>> THEN <<>>
  ELSE FindInvIn(rd[1],
                 MinOr({k \in 1..Len(rd[1].columns) :
                          contains(upper(rd[1].columns[k]), <<"INVOICE NO">>)}, 0),
                 upper(strip(invoice_number)), sheet_name)

\* ExcelReader.find_by_invoice_number: first row one of whose newline-
\* separated invoice numbers equals the target
find_by_invoice_number(wbk, invoice_number, sheet_name, ok) ==
  FindInvRead(_read_sheet_with_header_detection(wbk, sheet_name, ok), invoice_number, sheet_name)

\* ------------------------------------------------------- StringMatcher
LowerSym(c) ==
  CASE c = "C" -> "c"
    [] c = "I" -> "i"
    [] c = "Leicester" -> "leicester"
    [] c = "LEICESTER" -> "leicester"
    [] c = "Highcross" -> "highcross"
    [] c = "Leicestdawn" -> "leicestdawn"
    [] c = "Lei" -> "lei"
    [] c = "Portsmouth" -> "portsmouth"
    [] c = "Amazon" -> "amazon"
    [] c = "EU" -> "eu"
    [] c = "CJL Group" -> "cjl group"
    [] OTHER -> c

Punctuation == {",", ".", "-", "_", "/", "\\"}

normalize_string(s) ==
  IF ~truthy(s) THEN <<>>
  ELSE LET low == [k \in 1..Len(s) |-> LowerSym(s[k])]
           spaced == [k \in 1..Len(low) |-> IF low[k] \in Punctuation THEN " " ELSE low[k]]
       IN collapse(lstrip(spaced), FALSE)

\* fuzz.token_sort_ratio on normalised labels (library function): 100 on
\* equal labels, the library's value on the label pairs used here
token_sort_ratio(a, b) ==
  LET pair == {a, b}
  IN IF a = <<>> \/ b = <<>> THEN 0
     ELSE IF a = b THEN 100
     ELSE IF pair = {<<"leicester">>, <<"leicester", " ", "highcross">>} THEN 64
     ELSE IF pair = {<<"amazon">>, <<"amazon", " ", "eu">>} THEN 80
     ELSE IF pair = {<<"leicester">>, <<"leicestdawn">>} THEN 70
     ELSE IF pair = {<<"leicester">>, <<"lei">>} THEN 50
     ELSE IF pair = {<<"leicester">>, <<"portsmouth">>} THEN 21
     ELSE 14

fuzzy_match_score(s1, s2) ==
  IF ~truthy(s1) \/ ~truthy(s2) THEN 0
  ELSE token_sort_ratio(normalize_string(s1), normalize_string(s2))

\* ------------------------------------------------------ fuzzy candidates
(* A score is the rational num / den with den > 0, holding                 *)
(* 4 * (store * 0.5 + company * 0.25 + ratio * 100 * 0.25), so the         *)
(* thresholds 40 and 60 are 160 and 240 on this scale.                     *)
ScoreScale == 4
ScoreGE(sc, t) == sc.num >= ScoreScale * t * sc.den
ScoreGT(a, b) == a.num * b.den > b.num * a.den

Abs(x) == IF x < 0 THEN -x ELSE x

RECURSIVE GCD(_, _)
GCD(a, b) == IF b = 0 THEN a ELSE GCD(b, a % b)

MinI(a, b) == IF a <= b THEN a ELSE b
MaxI(a, b) == IF a >= b THEN a ELSE b

\* the score from its parts: twice the store score plus the company score,
\* and the amount proximity min/max of net and reference amount
ScoreOf(soft, net, ref_amount) ==
  IF ref_amount # <<>> /\ net # 0 /\ ref_amount[1] > 0
  THEN [num |-> soft * (MaxI(net, ref_amount[1]) \div GCD(Abs(net), ref_amount[1]))
                + 100 * (MinI(net, ref_amount[1]) \div GCD(Abs(net), ref_amount[1])),
        den |-> MaxI(net, ref_amount[1]) \div GCD(Abs(net), ref_amount[1])]
  ELSE [num |-> soft, den |-> 1]

\* po_amount or po_quote (a zero Decimal is falsy)
RefAmount(po_amount, po_quote) ==
  IF po_amount # <<>> /\ po_amount # <<0>> THEN po_amount ELSE po_quote

StorePart(po_store, invoice) ==
  IF truthy(po_store) /\ truthy(invoice.store_location)
  THEN 2 * fuzzy_match_score(invoice.store_location, po_store)
  ELSE 0

CompanyPart(company, invoice) ==
  IF truthy(company) /\ truthy(invoice.supplier_name)
  THEN fuzzy_match_score(invoice.supplier_name, company)
  ELSE 0

AmountCell(df, row, col) == IF col = 0 THEN <<>> ELSE _safe_decimal(row.c[col])

QuoteAmount(quote_val) == IF truthy(quote_val) THEN _safe_decimal(quote_val) ELSE <<>>

RowScore(df, row, invoice) ==
  ScoreOf(StorePart(Field(df, row, H_STORE), invoice)
          + CompanyPart(Or(Field(df, row, H_COMPANY), Field(df, row, <<"SUPPLIER">>)), invoice),
          invoice.net_amount,
          RefAmount(AmountCell(df, row,
                               MinOr({k \in 1..Len(df.columns) :
                                        contains(upper(df.columns[k]), <<"INVOICE AMOUNT">>)}, 0)),
                    QuoteAmount(Field(df, row, H_QUOTE))))

\* list.sort(key=score, reverse=True): stable, descending
RECURSIVE InsertByScore(_, _)
InsertByScore(sorted, x) ==
  IF sorted = <<>> THEN <<x>>
  ELSE IF ScoreGT(x.score, Head(sorted).score) THEN <<x>> \o sorted
  ELSE <<Head(sorted)>> \o InsertByScore(Tail(sorted), x)

RECURSIVE SortByScore(_, _)
SortByScore(todo, sorted) ==
  IF todo = <<>> THEN sorted
  ELSE SortByScore(Tail(todo), InsertByScore(sorted, Head(todo)))

Scored(df, sheet_name, invoice) ==
  [r \in 1..Len(df.data) |->
     [po_record |-> _row_to_po_record(df, df.data[r], sheet_name, r - 1),
      score |-> RowScore(df, df.data[r], invoice)]]

CandidatesRead(rd, sheet_name, invoice) ==
  IF rd = <<>> THEN <<>>
  ELSE SortByScore(SelectSeq(Scored(rd[1], sheet_name, invoice),
                             LAMBDA cand : cand.score.num > 0), <<>>)

find_po_candidates(wbk, sheet_name, invoice, ok) ==
  CandidatesRead(_read_sheet_with_header_detection(wbk, sheet_name, ok), sheet_name, invoice)

\* --------------------------------------------------------- SheetSelector
SUPPLIER_SHEET_MAP ==
  ("AAW" :> "AAW NATIONAL (PANDA)") @@ ("CJL" :> "CJL") @@ ("APS" :> "APS")
  @@ ("AMAZON" :> "ORDERS") @@ ("COMPCO" :> "OTHER") @@ ("AURA" :> "AURA AC")
  @@ ("STORE_MAINTENANCE" :> "STORE MAINTENANCE") @@ ("OTHER" :> "OTHER")
  @@ ("GENERIC" :> "OTHER") @@ ("SUNBELT" :> "OTHER")
  @@ ("MAXWELL_JONES" :> "OTHER") @@ ("METRO_SECURITY" :> "OTHER")
  @@ ("ILUX" :> "OTHER") @@ ("LAMPSHOP" :> "ORDERS")

\* variant: the type is looked up as written, without upper()
get_sheet_name_cased(supplier_type) ==
  IF Len(supplier_type) = 1 /\ supplier_type[1] \in DOMAIN SUPPLIER_SHEET_MAP
  THEN SUPPLIER_SHEET_MAP[supplier_type[1]] ELSE ""

\* supplier_type is a one-symbol text; "" when the type maps to no sheet
get_sheet_name(supplier_type) ==
  LET up == upper(supplier_type)
  IN IF Len(up) = 1 /\ up[1] \in DOMAIN SUPPLIER_SHEET_MAP
     THEN SUPPLIER_SHEET_MAP[up[1]] ELSE ""

\* ------------------------------------------------- Validation, result
ERROR == "ERROR"
WARNING == "WARNING"
INFO == "INFO"

\* Validation(check_name, passed, severity, message); `closest` holds the
\* candidates a 'no confident match' message lists, `where` the sheet and
\* row number a message ends with
Validation(check_name, passed, severity, message) ==
  [check_name |-> check_name, passed |-> passed, severity |-> severity,
   message |-> message, closest |-> <<>>, where |-> <<>>]

\* ValidationResult(invoice, po_record): the dataclass defaults
ValidationResult(invoice, po_record) ==
  [invoice |-> invoice, po_record |-> po_record, validations |-> <<>>,
   is_valid |-> FALSE, can_auto_update |-> FALSE,
   errors |-> <<>>, warnings |-> <<>>]

\* variant: the message of a failing outcome is not recorded
add_validation_unrecorded(result, v) ==
  [result EXCEPT !.validations = Append(@, v)]

add_validation(result, v) ==
  [result EXCEPT
     !.validations = Append(@, v),
     !.errors = IF ~v.passed /\ v.severity = ERROR THEN Append(@, v.message) ELSE @,
     !.warnings = IF ~v.passed /\ v.severity = WARNING THEN Append(@, v.message) ELSE @]

RECURSIVE add_validations(_, _)
add_validations(result, vs) ==
  IF vs = <<>> THEN result
  ELSE add_validations(add_validation(result, Head(vs)), Tail(vs))

has_errors(result) ==
  \E k \in 1..Len(result.validations) :
    ~result.validations[k].passed /\ result.validations[k].severity = ERROR

\* variant: every matched result may be written
finalize_matched_only(result) ==
  [result EXCEPT !.is_valid = ~has_errors(result),
                 !.can_auto_update = result.po_record # <<>>]

finalize(result) ==
  LET valid == ~has_errors(result)
  IN [result EXCEPT !.is_valid = valid,
                    !.can_auto_update = valid /\ result.po_record # <<>>]

\* variant: the warnings list is consulted before the errors list
get_status_summary_warnings_first(result) ==
  IF result.can_auto_update THEN "SUCCESS"
  ELSE IF result.warnings # <<>> THEN "WARNING"
  ELSE IF result.errors # <<>> THEN "ERROR"
  ELSE "UNKNOWN"

get_status_summary(result) ==
  IF result.can_auto_update THEN "SUCCESS"
  ELSE IF result.errors # <<>> THEN "ERROR"
  ELSE IF result.warnings # <<>> THEN "WARNING"
  ELSE "UNKNOWN"

create_error(error_message) ==
  add_validation(
    [ValidationResult(<<>>, <<>>) EXCEPT !.errors = <<error_message>>],
    Validation("Critical Error", FALSE, ERROR, error_message))

\* ------------------------------------------------------------- POMatcher
FUZZY_MATCH_THRESHOLD == 40
FuzzyInfoCutoff == 60
StoreMatchInfo == 70
StoreMatchWarn == 50

\* variant: a settled row is reported as an advisory finding only
DuplicateCheck_advisory(po_record) ==
  IF is_invoiced(po_record)
  THEN Validation("Duplicate Invoice Check", FALSE, WARNING, "PO already has invoice number")
  ELSE Validation("Duplicate Invoice Check", TRUE, INFO, "PO is available for invoicing")

DuplicateCheck(po_record) ==
  IF is_invoiced(po_record)
  THEN Validation("Duplicate Invoice Check", FALSE, ERROR, "PO already has invoice number")
  ELSE Validation("Duplicate Invoice Check", TRUE, INFO, "PO is available for invoicing")

\* variant: the informational pass starts at 60
StoreCheck_lenient(match_score) ==
  IF match_score >= FuzzyInfoCutoff
  THEN Validation("Store Match", TRUE, INFO, "Store name matches")
  ELSE IF match_score >= StoreMatchWarn
  THEN Validation("Store Match", TRUE, WARNING, "Store name mismatch")
  ELSE Validation("Store Match", FALSE, ERROR, "Store name mismatch")

StoreCheck(match_score) ==
  IF match_score >= StoreMatchInfo
  THEN Validation("Store Match", TRUE, INFO, "Store name matches")
  ELSE IF match_score >= StoreMatchWarn
  THEN Validation("Store Match", TRUE, WARNING, "Store name mismatch")
  ELSE Validation("Store Match", FALSE, ERROR, "Store name mismatch")

_add_post_match_validations(invoice, po_record) ==
  <<DuplicateCheck(po_record)>>
  \o (IF truthy(invoice.store_location) /\ truthy(po_record.store)
      THEN <<StoreCheck(fuzzy_match_score(invoice.store_location, po_record.store))>>
      ELSE <<>>)

\* variant: the slice is forgotten
Take_all(s, n) == s

Take(s, n) == SubSeq(s, 1, MinI(n, Len(s)))

Closest(candidates) ==
  [k \in 1..Len(candidates) |->
     [po_number |-> candidates[k].po_record.po_number,
      store |-> candidates[k].po_record.store,
      score |-> candidates[k].score]]

Matched(po_record, tried, first, invoice) ==
  [po_record |-> <<po_record>>, tried |-> tried,
   validations |-> first \o _add_post_match_validations(invoice, po_record)]

Unmatched(tried, v) == [po_record |-> <<>>, tried |-> tried, validations |-> <<v>>]

FuzzyMatchValidations(invoice, best_score) ==
  <<Validation("PO Match", TRUE,
               IF ScoreGE(best_score, FuzzyInfoCutoff) THEN INFO ELSE WARNING,
               "Fuzzy matched to PO")>>
  \o (IF ~truthy(invoice.po_number)
      THEN <<Validation("PO Number Warning", TRUE, WARNING, "No PO number found on invoice")>>
      ELSE <<>>)

\* variant: a top candidate scoring exactly the threshold is rejected
Strategy3_strict(invoice, candidates, tried) ==
  IF candidates # <<>>
  THEN IF ScoreGT(candidates[1].score, [num |-> ScoreScale * FUZZY_MATCH_THRESHOLD, den |-> 1])
       THEN Matched(candidates[1].po_record, tried,
                    FuzzyMatchValidations(invoice, candidates[1].score), invoice)
       ELSE Unmatched(tried,
                      [Validation("PO Match", FALSE, ERROR, "No confident match found")
                         EXCEPT !.closest = Closest(Take(candidates, 3))])
  ELSE Unmatched(tried, Validation("PO Match", FALSE, ERROR, "No matching PO record found"))

\* Strategy 3 and the no-match exits
Strategy3(invoice, candidates, tried) ==
  IF candidates # <<>>
  THEN IF ScoreGE(candidates[1].score, FUZZY_MATCH_THRESHOLD)
       THEN Matched(candidates[1].po_record, tried,
                    FuzzyMatchValidations(invoice, candidates[1].score), invoice)
       ELSE Unmatched(tried,
                      [Validation("PO Match", FALSE, ERROR, "No confident match found")
                         EXCEPT !.closest = Closest(Take(candidates, 3))])
  ELSE Unmatched(tried, Validation("PO Match", FALSE, ERROR, "No matching PO record found"))

Try1(invoice) == truthy(invoice.po_number) /\ truthy(strip(invoice.po_number))
Try2(invoice) == truthy(invoice.invoice_number) /\ truthy(strip(invoice.invoice_number))

Tried1(invoice) == IF Try1(invoice) THEN <<"find_po_record">> ELSE <<>>
Tried2(invoice) ==
  Tried1(invoice) \o (IF Try2(invoice) THEN <<"find_by_invoice_number">> ELSE <<>>)
Tried3(invoice) == Append(Tried2(invoice), "find_po_candidates")

\* variant: the invoice-number hit is preferred to the PO-key hit
Cascade_invoice_first(invoice, sheet_name, r1, r2, candidates) ==
  IF r2 # <<>>
  THEN Matched(r2[1], Tried2(invoice),
               <<Validation("PO Match", TRUE, INFO, "Invoice already recorded in sheet")>>,
               invoice)
  ELSE IF r1 # <<>>
  THEN Matched(r1[1], Tried1(invoice),
               <<Validation("PO Match", TRUE, INFO, "PO found in sheet")>>, invoice)
  ELSE Strategy3(invoice, candidates, Tried3(invoice))

\* the cascade over the results r1, r2 of the two lookups (<<>> when the
\* lookup is skipped or finds nothing) and the candidate list
Cascade(invoice, sheet_name, r1, r2, candidates) ==
  IF r1 # <<>>
  THEN Matched(r1[1], Tried1(invoice),
               <<Validation("PO Match", TRUE, INFO, "PO found in sheet")>>, invoice)
  ELSE IF r2 # <<>>
  THEN Matched(r2[1], Tried2(invoice),
               <<Validation("PO Match", TRUE, INFO, "Invoice already recorded in sheet")>>,
               invoice)
  ELSE Strategy3(invoice, candidates, Tried3(invoice))

Lookup1(wbk, invoice, sheet_name, ok) ==
  IF Try1(invoice) THEN Reader_find_po_record(wbk, invoice.po_number, sheet_name, ok)
  ELSE <<>>

Lookup2(wbk, invoice, sheet_name, ok) ==
  IF Try2(invoice) THEN find_by_invoice_number(wbk, invoice.invoice_number, sheet_name, ok)
  ELSE <<>>

FindInSheet(wbk, invoice, sheet_name, io) ==
  IF sheet_name = ""
  THEN Unmatched(<<>>, Validation("Sheet Selection", FALSE, ERROR, "Unknown supplier type"))
  ELSE Cascade(invoice, sheet_name,
               Lookup1(wbk, invoice, sheet_name, io.s1),
               Lookup2(wbk, invoice, sheet_name, io.s2),
               find_po_candidates(wbk, sheet_name, invoice, io.s3))

\* POMatcher.find_po_record.  io.s1, io.s2, io.s3 tell whether the sheet
\* read of each strategy succeeds.  `tried` lists the reader lookups made.
find_po_record(wbk, invoice, io) ==
  FindInSheet(wbk, invoice, get_sheet_name(invoice.supplier_type), io)

\* --------------------------------------------------------- QuoteValidator
QuoteThreshold == 20000

\* the warning of the cases 2 to 4, ending "(sheet '<sheet>', row <row>)"
QuoteWarning(message, po_record) ==
  [Validation("Quote Authorization (£200+ Check)", FALSE, WARNING, message)
     EXCEPT !.where = <<[sheet |-> po_record.sheet_name, row |-> po_record.row_index + 1]>>]

\* variant: a net amount equal to the threshold needs authorization
QuoteValidator_validate_strict(invoice, po_record) ==
  LET has_quote_ref == truthy(po_record.quote_over_200) /\ truthy(strip(po_record.quote_over_200))
      has_authorization == truthy(po_record.authorized) /\ truthy(strip(po_record.authorized))
      name == "Quote Authorization (£200+ Check)"
  IN IF invoice.net_amount < QuoteThreshold
     THEN Validation(name, TRUE, INFO, "below threshold - no quote authorization required")
     ELSE IF has_quote_ref /\ has_authorization
     THEN Validation(name, TRUE, INFO, "Quote authorized")
     ELSE IF has_quote_ref /\ ~has_authorization
     THEN QuoteWarning("quote present but AUTHORISED is empty", po_record)
     ELSE IF ~has_quote_ref /\ ~has_authorization
     THEN QuoteWarning("QUOTE OVER £200 and AUTHORISED are both empty", po_record)
     ELSE QuoteWarning("authorized but QUOTE OVER £200 is empty", po_record)

QuoteValidator_validate(invoice, po_record) ==
  LET has_quote_ref == truthy(po_record.quote_over_200) /\ truthy(strip(po_record.quote_over_200))
      has_authorization == truthy(po_record.authorized) /\ truthy(strip(po_record.authorized))
      name == "Quote Authorization (£200+ Check)"
  IN IF invoice.net_amount <= QuoteThreshold
     THEN Validation(name, TRUE, INFO, "below threshold - no quote authorization required")
     ELSE IF has_quote_ref /\ has_authorization
     THEN Validation(name, TRUE, INFO, "Quote authorized")
     ELSE IF has_quote_ref /\ ~has_authorization
     THEN QuoteWarning("quote present but AUTHORISED is empty", po_record)
     ELSE IF ~has_quote_ref /\ ~has_authorization
     THEN QuoteWarning("QUOTE OVER £200 and AUTHORISED are both empty", po_record)
     ELSE QuoteWarning("authorized but QUOTE OVER £200 is empty", po_record)

\* ------------------------------------------------------- InvoiceValidator
HighAmount == 1000000
VatTolerance == 2

_validate_nominal_code(invoice, po_record) ==
  LET invoice_code == invoice.nominal_code
      po_code == po_record.nominal_code
  IN IF ~truthy(invoice_code) /\ ~truthy(po_code)
     THEN Validation("Nominal Code", TRUE, WARNING, "Nominal code missing from both")
     ELSE IF truthy(invoice_code) /\ truthy(po_code) /\ invoice_code = po_code
     THEN Validation("Nominal Code", TRUE, INFO, "Nominal code matches")
     ELSE IF truthy(invoice_code) /\ truthy(po_code) /\ invoice_code # po_code
     THEN Validation("Nominal Code", FALSE, WARNING, "Nominal code mismatch")
     ELSE Validation("Nominal Code", TRUE, INFO, "Nominal code from one side")

\* variant: a net amount of zero is accepted
_validate_amounts_negative_only(invoice) ==
  IF invoice.net_amount < 0
  THEN Validation("Amount Validation", FALSE, ERROR, "Extracted net amount is invalid")
  ELSE IF invoice.net_amount > HighAmount
  THEN Validation("Amount Validation", TRUE, WARNING, "High amount")
  ELSE Validation("Amount Validation", TRUE, INFO, "Amount validated")

_validate_amounts(invoice) ==
  IF invoice.net_amount <= 0
  THEN Validation("Amount Validation", FALSE, ERROR, "Extracted net amount is invalid")
  ELSE IF invoice.net_amount > HighAmount
  THEN Validation("Amount Validation", TRUE, WARNING, "High amount")
  ELSE Validation("Amount Validation", TRUE, INFO, "Amount validated")

\* vat_amount / total_amount are optional: <<>> is None
Falsy(opt) == opt = <<>> \/ opt[1] = 0

_validate_vat(invoice) ==
  IF invoice.net_amount = 0 \/ Falsy(invoice.vat_amount) \/ Falsy(invoice.total_amount)
  THEN Validation("VAT Calculation", TRUE, INFO, "VAT calculation not verified (missing data)")
  ELSE IF Abs(invoice.net_amount + invoice.vat_amount[1] - invoice.total_amount[1]) <= VatTolerance
  THEN Validation("VAT Calculation", TRUE, INFO, "VAT calculation correct")
  ELSE Validation("VAT Calculation", FALSE, WARNING, "VAT calculation mismatch")

PolicyValidations(invoice, po_record) ==
  <<_validate_nominal_code(invoice, po_record),
    QuoteValidator_validate(invoice, po_record),
    _validate_amounts(invoice),
    _validate_vat(invoice)>>

\* variant: the policy checks also run on a settled row
ValidateMatched_all_checks(invoice, m) ==
  finalize(add_validations(
    ValidationResult(<<invoice>>, m.po_record),
    IF m.po_record = <<>> THEN m.validations
    ELSE m.validations \o PolicyValidations(invoice, m.po_record[1])))

\* InvoiceValidator.validate, from the answer m of the matcher
ValidateMatched(invoice, m) ==
  finalize(add_validations(
    ValidationResult(<<invoice>>, m.po_record),
    IF m.po_record = <<>> THEN m.validations
    ELSE IF is_invoiced(m.po_record[1]) THEN m.validations
    ELSE m.validations \o PolicyValidations(invoice, m.po_record[1])))

\* ------------------------------------------------------------ ExcelWriter
EmptyRow == [c |-> [k \in 1..NCols |-> <<>>], fill |-> FALSE, locked |-> {}]

WriterHeaderScan == 20

\* _find_header_row: first of rows 1..19 with a cell equal to 'PO' or
\* containing 'INVOICE NO' (1-based); 0 when none
IsHeaderCell(value_upper) == value_upper = H_PO \/ contains(value_upper, <<"INVOICE NO">>)

_find_header_row(ws) ==
  MinOr({r \in 1..Len(ws) :
           r < MinI(WriterHeaderScan, Len(ws) + 1)
           /\ \E k \in 1..Len(ws[r].c) : IsHeaderCell(upper(strip(ws[r].c[k])))}, 0)

\* _find_column: first column of the header row whose text contains the
\* name (1-based); 0 when none
_find_column(ws, header_row, column_name) ==
  MinOr({k \in 1..Len(ws[header_row].c) :
           contains(upper(ws[header_row].c[k]), upper(column_name))}, 0)

\* the grid with rows up to excel_row present (ws.cell creates cells)
Extend(ws, excel_row) ==
  IF excel_row <= Len(ws) THEN ws
  ELSE ws \o [r \in 1..(excel_row - Len(ws)) |-> EmptyRow]

\* ws.cell(row, column).value = v on a grid that has the row; a merged
\* cell's value is read-only and the assignment raises
Raises(ws, excel_row, col) == col \in ws[excel_row].locked
SetCell(ws, excel_row, col, v) == [ws EXCEPT ![excel_row].c[col] = v]

Outcome(ok, ws) == [ok |-> ok, ws |-> ws]

\* the row fill and modified = True
WriteFill(ws, excel_row) == Outcome(TRUE, [ws EXCEPT ![excel_row].fill = TRUE])

\* the nominal code, written when provided and the cell is empty
\* variant: a provided nominal code replaces the one of the row
WriteNominal_overwrite(ws, excel_row, col_nominal, nominal_code) ==
  IF truthy(nominal_code) /\ col_nominal # 0
  THEN IF Raises(ws, excel_row, col_nominal) THEN Outcome(FALSE, ws)
       ELSE WriteFill(SetCell(ws, excel_row, col_nominal, nominal_code), excel_row)
  ELSE WriteFill(ws, excel_row)

WriteNominal(ws, excel_row, col_nominal, nominal_code) ==
  IF truthy(nominal_code) /\ col_nominal # 0
  THEN IF ~truthy(strip(ws[excel_row].c[col_nominal]))
       THEN IF Raises(ws, excel_row, col_nominal) THEN Outcome(FALSE, ws)
            ELSE WriteFill(SetCell(ws, excel_row, col_nominal, nominal_code), excel_row)
       ELSE WriteFill(ws, excel_row)
  ELSE WriteFill(ws, excel_row)

WriteSigned(ws, excel_row, col_invoice_signed, date, col_nominal, nominal_code) ==
  IF Raises(ws, excel_row, col_invoice_signed) THEN Outcome(FALSE, ws)
  ELSE WriteNominal(SetCell(ws, excel_row, col_invoice_signed, date),
                    excel_row, col_nominal, nominal_code)

WriteAmount(ws, excel_row, col_invoice_amount, amount, col_invoice_signed, date, col_nominal, nominal_code) ==
  IF Raises(ws, excel_row, col_invoice_amount) THEN Outcome(FALSE, ws)
  ELSE WriteSigned(SetCell(ws, excel_row, col_invoice_amount, AmountText(amount)),
                   excel_row, col_invoice_signed, date, col_nominal, nominal_code)

\* the cell updates in the order of the code; an assignment that raises
\* ends the call with the earlier assignments in place
WriteCells(ws, excel_row, col_invoice_no, col_invoice_amount, col_invoice_signed, col_nominal, invoice_number, amount, date, nominal_code) ==
  IF col_invoice_no = 0 \/ col_invoice_amount = 0 \/ col_invoice_signed = 0
  THEN Outcome(FALSE, ws)
  ELSE IF Raises(Extend(ws, excel_row), excel_row, col_invoice_no)
  THEN Outcome(FALSE, ws)
  ELSE WriteAmount(SetCell(Extend(ws, excel_row), excel_row, col_invoice_no, invoice_number),
                   excel_row, col_invoice_amount, amount, col_invoice_signed, date,
                   col_nominal, nominal_code)

UpdateSheet(ws, header_row, row_index, invoice_number, invoice_amount, invoice_signed_date, nominal_code) ==
  IF header_row = 0 THEN Outcome(FALSE, ws)
  ELSE WriteCells(ws, header_row + row_index + 1,
                  _find_column(ws, header_row, H_INVNO),
                  _find_column(ws, header_row, H_AMOUNT),
                  _find_column(ws, header_row, H_SIGNED),
                  _find_column(ws, header_row, H_NOMINAL),
                  invoice_number, invoice_amount, invoice_signed_date, nominal_code)

InWorkbook(workbook, sheet_name, out) ==
  [ok |-> out.ok, workbook |-> [workbook EXCEPT ![sheet_name] = out.ws]]

\* update_po_record on the writer's workbook: the workbook after the call
\* and the value returned
update_po_record(workbook, sheet_name, row_index, invoice_number, invoice_amount, invoice_signed_date, nominal_code) ==
  IF sheet_name \notin DOMAIN workbook THEN [ok |-> FALSE, workbook |-> workbook]
  ELSE InWorkbook(workbook, sheet_name,
                  UpdateSheet(workbook[sheet_name], _find_header_row(workbook[sheet_name]),
                              row_index, invoice_number, invoice_amount,
                              invoice_signed_date, nominal_code))

\* the spreadsheet row a call addresses, 0 when it addresses none
RowFrom(header_row, row_index) == IF header_row = 0 THEN 0 ELSE header_row + row_index + 1

TargetRow(workbook, sheet_name, row_index) ==
  IF sheet_name \notin DOMAIN workbook THEN 0
  ELSE RowFrom(_find_header_row(workbook[sheet_name]), row_index)

CellAt(ws, excel_row, col) ==
  IF excel_row = 0 \/ excel_row > Len(ws) \/ col = 0 THEN <<>> ELSE ws[excel_row].c[col]

InvoiceCellOf(ws, header_row, row_index) ==
  IF header_row = 0 THEN <<>>
  ELSE CellAt(ws, header_row + row_index + 1, _find_column(ws, header_row, H_INVNO))

\* the text of the invoice-number cell of the row a call addresses
TargetInvoiceCell(workbook, sheet_name, row_index) ==
  IF sheet_name \notin DOMAIN workbook THEN <<>>
  ELSE InvoiceCellOf(workbook[sheet_name], _find_header_row(workbook[sheet_name]), row_index)

\* ------------------------------------------------------- web app helpers
\* lookup_nominal_code against the mapping rows of the session: suppliers
\* named in the mapping get its code, the others ""
nominal_mapping_rows == <<[Supplier |-> <<"amazon">>, Code |-> <<"7", "1">>]>>

lookup_nominal_code(supplier_name) ==
  LET supplier_lower == normalize_string(supplier_name)
      ms == {k \in 1..Len(nominal_mapping_rows) :
               contains(supplier_lower, nominal_mapping_rows[k].Supplier)
               \/ contains(nominal_mapping_rows[k].Supplier, supplier_lower)}
  IN IF ~truthy(supplier_name) \/ ms = {} THEN <<>>
     ELSE nominal_mapping_rows[Min(ms)].Code

\* ValidationResult.needs_review, read by the web app: no blocking failure
\* and an advisory failure, no matched row, or a low-confidence fuzzy match
needs_review(result) ==
  /\ ~has_errors(result)
  /\ \/ \E k \in 1..Len(result.validations) :
          ~result.validations[k].passed /\ result.validations[k].severity = WARNING
     \/ result.po_record = <<>>
     \/ \E k \in 1..Len(result.validations) :
          result.validations[k].check_name = "PO Match"
          /\ result.validations[k].severity = WARNING

\* indices of the results with needs_review, in result order
RECURSIVE review_results(_, _)
review_results(rs, k) ==
  IF k > Len(rs) THEN <<>>
  ELSE (IF needs_review(rs[k]) THEN <<k>> ELSE <<>>) \o review_results(rs, k + 1)

TODAY == <<"today">>

\* ---------------------------------------------------------------- inputs
HeaderRow ==
  [c |-> <<H_PO, H_STORE, H_COMPANY, H_QUOTE, H_AUTH, H_INVNO, H_SIGNED, H_AMOUNT, H_NOMINAL>>,
   fill |-> FALSE, locked |-> {}]

TitleRow == [EmptyRow EXCEPT !.c[1] = <<"Maintenance", " ", "-", " ", "PO's">>]

DataRow(po, store, company, quote, auth, inv, signed, amount, nominal, locked) ==
  [c |-> <<po, store, company, quote, auth, inv, signed, amount, nominal>>,
   fill |-> FALSE, locked |-> locked]

\* an open row, a settled row, a row without PO key carrying a quote
\* amount, and an open row whose amount cell is part of a merged range
RowOpen == DataRow(<<NL, "C", "1", NL>>, <<"Leicester">>, <<"CJL Group">>, <<>>, <<>>,
                   <<>>, <<>>, <<>>, <<>>, {})
RowSettled == DataRow(<<"C", "2">>, <<"Portsmouth">>, <<"CJL Group">>, <<"Q", "7">>, <<"JB">>,
                      <<"I", "1">>, <<"old">>, <<"1", "5", "0", ".", "0">>, <<"7", "1">>, {})
RowQuote == DataRow(<<>>, <<"LEICESTER">>, <<>>, <<"£", "3", "0", "0", "0">>, <<>>,
                    <<>>, <<>>, <<>>, <<>>, {})
RowMerged == DataRow(<<"C", "3">>, <<"Leicester">>, <<"CJL Group">>, <<>>, <<>>,
                     <<>>, <<>>, <<>>, <<>>, {8})
RowList == <<RowOpen, RowSettled, RowQuote, RowMerged>>

Invoice(supplier_type, po_number, invoice_number, store_location, supplier_name, net_amount, vat_amount, total_amount) ==
  [supplier_type |-> supplier_type, po_number |-> po_number,
   invoice_number |-> invoice_number, store_location |-> store_location,
   supplier_name |-> supplier_name, net_amount |-> net_amount,
   vat_amount |-> vat_amount, total_amount |-> total_amount, nominal_code |-> <<>>]

InvKey == Invoice(<<"cjl">>, <<"c", "1">>, <<"I", "2">>, <<"Leicester">>, <<"CJL Group">>,
                  15000, <<3000>>, <<18000>>)
InvKeyAgain == Invoice(<<"CJL">>, <<"C", "1">>, <<"I", "4">>, <<"Leicester">>, <<"CJL Group">>,
                       60000, <<12000>>, <<72000>>)
InvSettled == Invoice(<<"CJL">>, <<"C", "2">>, <<"i", "1">>, <<"Portsmouth">>, <<"CJL Group">>,
                      15000, <<>>, <<>>)
InvFuzzy == Invoice(<<"CJL">>, <<>>, <<"I", "3">>, <<"Leicester">>, <<"Amazon">>,
                    60000, <<>>, <<>>)
InvMerged == Invoice(<<"CJL">>, <<"C", "3">>, <<"I", "5">>, <<"Leicester">>, <<"CJL Group">>,
                     10000, <<2500>>, <<12000>>)
InvUnknown == Invoice(<<"XYZ">>, <<"C", "1">>, <<"I", "6">>, <<"Leicester">>, <<"CJL Group">>,
                      15000, <<>>, <<>>)
\* one PDF of the input directory: <<invoice>> when extraction succeeds,
\* <<>> when the extractor raises
InputList == <<<<InvKey>>, <<InvKeyAgain>>, <<InvSettled>>, <<InvFuzzy>>, <<InvMerged>>,
               <<InvUnknown>>, <<>>>>

\* whether the sheet read of each lookup succeeds
IOChoices ==
  {[s1 |-> TRUE, s2 |-> TRUE, s3 |-> TRUE],
   [s1 |-> FALSE, s2 |-> TRUE, s3 |-> TRUE],
   [s1 |-> FALSE, s2 |-> FALSE, s3 |-> TRUE],
   [s1 |-> FALSE, s2 |-> FALSE, s3 |-> FALSE]}

\* the elements of list at the positions in S, in list order
RECURSIVE Pick(_, _, _)
Pick(list, S, k) ==
  IF k > Len(list) THEN <<>>
  ELSE (IF k \in S THEN <<list[k]>> ELSE <<>>) \o Pick(list, S, k + 1)

Picks(list, n) ==
  {Pick(list, S, 1) : S \in {T \in SUBSET (1..Len(list)) : Cardinality(T) \in 1..n}}

Ledgers == {[CJL |-> <<TitleRow, HeaderRow>> \o rows] : rows \in Picks(RowList, MaxRows)}
Batches == Picks(InputList, MaxBatch)

\* resubmission: the same PDF twice in one run
BatchesResubmit == {<<InputList[k], InputList[k]>> : k \in 1..Len(InputList)}

\* parallel processing: two different invoices, one per worker
WorkerInvoices == {InvKey, InvKeyAgain, InvSettled, InvFuzzy}
BatchesWorkers ==
  {<<<<ab[1]>>, <<ab[2]>>>> : ab \in {p \in WorkerInvoices \X WorkerInvoices : p[1] # p[2]}}

\* inputs of the single checks: one open row keyed C1 with every kind of
\* quote and authorization cell, one without store label, one with a
\* nominal code, one whose nominal code cell holds a space, a sheet whose
\* first row is settled with
\* invoice I1 and whose second row is open and keyed C4, sheets whose
\* first row records several invoice numbers in one cell or a longer
\* number, sheets whose first row has its key in lower case or within a
\* longer key, and a sheet of four open rows
QuoteCells == {<<>>, <<" ">>, <<"Q", "7">>}
AuthCells == {<<>>, <<" ">>, <<"JB">>}
CheckRow(quote, auth) == DataRow(<<"C", "1">>, <<"Leicester">>, <<"CJL Group">>, quote, auth, <<>>, <<>>, <<>>, <<>>, {})
RowNoStore == DataRow(<<"C", "1">>, <<>>, <<"CJL Group">>, <<>>, <<>>, <<>>, <<>>, <<>>, <<>>, {})
RowCoded == DataRow(<<"C", "1">>, <<"Leicester">>, <<"CJL Group">>, <<>>, <<>>, <<>>, <<>>, <<>>, <<"5", "5">>, {})
RowSpaceCode == DataRow(<<"C", "1">>, <<"Leicester">>, <<"CJL Group">>, <<>>, <<>>, <<>>, <<>>, <<>>, <<" ">>, {})
RowNumbers(inv) == DataRow(<<"C", "5">>, <<"Portsmouth">>, <<"CJL Group">>, <<>>, <<>>, inv, <<"old">>, <<>>, <<>>, {})
RowKeyed(po) == DataRow(po, <<"Leicester">>, <<"CJL Group">>, <<>>, <<>>, <<>>, <<>>, <<>>, <<>>, {})
RowLate == DataRow(<<"C", "4">>, <<"Leicester">>, <<"CJL Group">>, <<>>, <<>>, <<>>, <<>>, <<>>, <<>>, {})
LedgersChecks ==
  {[CJL |-> <<TitleRow, HeaderRow, CheckRow(q, a)>>] : q \in QuoteCells, a \in AuthCells}
  \cup {[CJL |-> <<TitleRow, HeaderRow, RowNoStore>>],
        [CJL |-> <<TitleRow, HeaderRow, RowCoded>>],
        [CJL |-> <<TitleRow, HeaderRow, RowSpaceCode>>],
        [CJL |-> <<TitleRow, HeaderRow, RowSettled, RowLate>>],
        [CJL |-> <<TitleRow, HeaderRow, RowKeyed(<<"c", "1">>)>>],
        [CJL |-> <<TitleRow, HeaderRow, RowKeyed(<<"X", "C", "1", "2">>), CheckRow(<<>>, <<>>)>>],
        [CJL |-> <<TitleRow, HeaderRow, RowNumbers(<<"I", "0", NL, " ", "i", "1", " ">>), RowSettled>>],
        [CJL |-> <<TitleRow, HeaderRow, RowNumbers(<<"I", "1", "2">>)>>],
        [CJL |-> <<TitleRow, HeaderRow, RowNumbers(<<"I", "0", ",", " ", "I", "1">>), RowSettled>>],
        [CJL |-> <<TitleRow, HeaderRow, RowOpen, RowLate, RowMerged, CheckRow(<<>>, <<>>)>>]}

\* invoices keyed C1: net amounts around the limits of the checks, tax and
\* total present, zero or absent, and store labels of every similarity
KeyInvoice(store, net, vat, total) == Invoice(<<"CJL">>, <<"C", "1">>, <<"I", "8">>, store, <<"CJL Group">>, net, vat, total)
CheckInvoices ==
  {KeyInvoice(<<"Leicester">>, n, <<>>, <<>>) : n \in {-500, 0, 20000, 20001, 1000000, 1000001}}
  \cup {KeyInvoice(<<"Leicester">>, 10000, vt[1], vt[2]) :
          vt \in {<<<<2500>>, <<12000>>>>, <<<<2000>>, <<12002>>>>, <<<<2000>>, <<12003>>>>,
                  <<<<0>>, <<12000>>>>, <<<<0>>, <<10000>>>>, <<<<2000>>, <<0>>>>}}
  \cup {KeyInvoice(st, 10000, <<>>, <<>>) :
          st \in {<<"Leicestdawn">>, <<"Leicester", " ", "Highcross">>, <<"Lei">>, <<"Portsmouth">>, <<>>}}
  \cup {Invoice(<<"CJL">>, <<"C", "1">>, <<"I", "7">>, <<"Leicester">>, <<"Amazon">>, 10000, <<>>, <<>>),
        Invoice(<<"CJL">>, <<"C", "4">>, <<"I", "1">>, <<"Leicester">>, <<"CJL Group">>, 10000, <<>>, <<>>),
        Invoice(<<"CJL">>, <<"C", "9">>, <<"I", "1">>, <<"Portsmouth">>, <<"CJL Group">>, 10000, <<>>, <<>>),
        Invoice(<<"CJL">>, <<>>, <<"I", "9">>, <<"Portsmouth">>, <<"CJL Group">>, 10000, <<>>, <<>>),
        Invoice(<<"CJL">>, <<>>, <<"I", "9">>, <<>>, <<>>, 10000, <<>>, <<>>)}
\* invoices that reach the fuzzy scan, with a PO reference that is on no row
\* and with none: store labels of every similarity, and net amounts that put
\* the score of the settled row at 40, just below it and below 0
FuzzyInvoice(po_number, store, supplier_name, net) == Invoice(<<"CJL">>, po_number, <<"I", "9">>, store, supplier_name, net, <<>>, <<>>)
FuzzyInvoices ==
  {FuzzyInvoice(po, st, <<"CJL Group">>, 10000) :
     po \in {<<>>, <<"C", "9">>},
     st \in {<<"Leicester">>, <<"Leicestdawn">>, <<"Leicester", " ", "Highcross">>, <<"Lei">>}}
  \cup {FuzzyInvoice(po, <<>>, <<"CJL Group">>, n) : po \in {<<>>, <<"C", "9">>}, n \in {8999, 9000, -50000}}
BatchesChecks == {<<<<inv>>>> : inv \in CheckInvoices \cup FuzzyInvoices}

\* ----------------------------------------------------------------- state
VARIABLES
  disk,            \* the workbook file
  mode,            \* "cli" or "web"
  dry_run,         \* CLI --dry-run
  batch,           \* the PDFs of the run
  i,               \* PDFs processed so far
  pc,              \* position in the pipeline
  results,         \* the result list
  owner,           \* owner[k]: the PDF that results[k] was appended for
  nom_codes,       \* web app: result._nominal_code per result
  w,               \* the open writer session
  j,               \* web app: position in the write loop
  decisions,       \* web app: review decision per review result
  reviews_written, \* web app: confirmed results written
  writes,          \* every update_po_record call made
  lookups          \* per validate call: the reader lookups it made

vars == <<disk, mode, dry_run, batch, i, pc, results, owner, nom_codes, w, j,
          decisions, reviews_written, writes, lookups>>

NoWriter == [open |-> FALSE, workbook |-> [CJL |-> <<>>], modified |-> FALSE]

InitWith(ledgers, batches) ==
  /\ disk \in ledgers
  /\ mode \in {"cli", "web"}
  /\ dry_run \in BOOLEAN
  /\ mode = "web" => dry_run = FALSE
  /\ batch \in batches
  /\ i = 0
  /\ pc = IF mode = "cli" THEN "cli_next" ELSE "web_validate"
  /\ results = <<>>
  /\ owner = <<>>
  /\ nom_codes = <<>>
  /\ w = NoWriter
  /\ j = 0
  /\ decisions = <<>>
  /\ reviews_written = FALSE
  /\ writes = <<>>
  /\ lookups = <<>>

Init == InitWith(Ledgers, Batches)

\* the record of one validate call: the result it produced, the reader
\* lookups the matcher made, and whether the sheet read of one of them failed
ReadFailed(tried, io) ==
  \/ \E q \in 1..Len(tried) : tried[q] = "find_po_record" /\ ~io.s1
  \/ \E q \in 1..Len(tried) : tried[q] = "find_by_invoice_number" /\ ~io.s2
  \/ \E q \in 1..Len(tried) : tried[q] = "find_po_candidates" /\ ~io.s3

Looked(tried, io) ==
  [res |-> Len(results) + 1, tried |-> tried, read_failed |-> ReadFailed(tried, io)]

\* the record of one update_po_record call: the result it was made for,
\* how it was gated, the row addressed, whether that row's invoice-number
\* cell was non-empty at the call, and the workbook before and after
Written(k, via, res, po, out) ==
  /\ w' = [w EXCEPT !.workbook = out.workbook, !.modified = @ \/ out.ok]
  /\ writes' = Append(writes,
       [res |-> k, via |-> via, ok |-> out.ok,
        can_auto_update |-> res.can_auto_update,
        is_valid |-> res.is_valid,
        needs_review |-> needs_review(res),
        dry_run |-> dry_run,
        settled |-> truthy(strip(TargetInvoiceCell(w.workbook, po.sheet_name, po.row_index))),
        row |-> TargetRow(w.workbook, po.sheet_name, po.row_index),
        before |-> w.workbook, after |-> out.workbook])

\* one update_po_record call of the open writer for results[k]
Call(k, via, nominal_code) ==
  Written(k, via, results[k], results[k].po_record[1],
          update_po_record(w.workbook, results[k].po_record[1].sheet_name,
                           results[k].po_record[1].row_index,
                           results[k].invoice[1].invoice_number,
                           results[k].invoice[1].net_amount, TODAY, nominal_code))

\* ExcelWriter.__exit__ / save: the file is rewritten when the session
\* was modified and the save does not raise
Exit(save_ok) ==
  /\ disk' = IF w.modified /\ save_ok THEN w.workbook ELSE disk
  /\ w' = NoWriter

\* ------------------------------------------------------------ CLI process
\* validate (from the matcher's answer m), append the result, decide
\* whether to write
\* variant: the write decision ignores --dry-run
CliAppend_ungated(res, looked) ==
  /\ results' = Append(results, res)
  /\ owner' = Append(owner, i + 1)
  /\ lookups' = Append(lookups, looked)
  /\ IF res.can_auto_update
     THEN pc' = "cli_open" /\ i' = i
     ELSE pc' = pc /\ i' = i + 1

CliAppend(res, looked) ==
  /\ results' = Append(results, res)
  /\ owner' = Append(owner, i + 1)
  /\ lookups' = Append(lookups, looked)
  /\ IF ~dry_run /\ res.can_auto_update
     THEN pc' = "cli_open" /\ i' = i
     ELSE pc' = pc /\ i' = i + 1

CliValidated(m, io) ==
  CliAppend(ValidateMatched(batch[i + 1][1], m), Looked(m.tried, io))

\* one iteration of the loop up to the write decision: extract, validate,
\* append the result
CliProcess ==
  /\ pc = "cli_next" /\ i < Len(batch)
  /\ IF batch[i + 1] = <<>>
     THEN /\ results' = Append(results, create_error("extraction failed"))
          /\ owner' = Append(owner, i + 1)
          /\ i' = i + 1
          /\ UNCHANGED <<pc, lookups>>
     ELSE \E io \in IOChoices : CliValidated(find_po_record(disk, batch[i + 1][1], io), io)
  /\ UNCHANGED <<disk, mode, dry_run, batch, nom_codes, w, j, decisions,
                 reviews_written, writes>>

\* ExcelWriter(...): backup copy and load; a failure is caught by the
\* loop's `except Exception`, which appends an error result
CliOpen ==
  /\ pc = "cli_open"
  /\ \E ok \in BOOLEAN :
       IF ok
       THEN /\ w' = [open |-> TRUE, workbook |-> disk, modified |-> FALSE]
            /\ pc' = "cli_update"
            /\ UNCHANGED <<results, owner, i>>
       ELSE /\ results' = Append(results, create_error("could not open workbook"))
            /\ owner' = Append(owner, i + 1)
            /\ i' = i + 1
            /\ pc' = "cli_next"
            /\ UNCHANGED w
  /\ UNCHANGED <<disk, mode, dry_run, batch, nom_codes, j, decisions,
                 reviews_written, writes, lookups>>

CliUpdate ==
  /\ pc = "cli_update"
  /\ Call(Len(results), "auto", <<>>)
  /\ pc' = "cli_exit"
  /\ UNCHANGED <<disk, mode, dry_run, batch, i, results, owner, nom_codes, j,
                 decisions, reviews_written, lookups>>

CliExit ==
  /\ pc = "cli_exit"
  /\ \E save_ok \in BOOLEAN : Exit(save_ok)
  /\ i' = i + 1
  /\ pc' = "cli_next"
  /\ UNCHANGED <<mode, dry_run, batch, results, owner, nom_codes, j,
                 decisions, reviews_written, writes, lookups>>

CliDone ==
  /\ pc = "cli_next" /\ i = Len(batch)
  /\ pc' = "done"
  /\ UNCHANGED <<disk, mode, dry_run, batch, i, results, owner, nom_codes, w, j,
                 decisions, reviews_written, writes, lookups>>

\* ---------------------------------------------------------------- web app
WebValidated(m, io) ==
  /\ results' = Append(results, ValidateMatched(batch[i + 1][1], m))
  /\ lookups' = Append(lookups, Looked(m.tried, io))

\* one iteration of the validation loop; any exception gives an error result
WebValidate ==
  /\ pc = "web_validate" /\ i < Len(batch)
  /\ IF batch[i + 1] = <<>>
     THEN /\ results' = Append(results, create_error("could not read"))
          /\ UNCHANGED lookups
     ELSE \E io \in IOChoices : WebValidated(find_po_record(disk, batch[i + 1][1], io), io)
  /\ owner' = Append(owner, i + 1)
  /\ i' = i + 1
  /\ UNCHANGED <<disk, mode, dry_run, batch, pc, nom_codes, w, j, decisions,
                 reviews_written, writes>>

\* nominal-code lookup over all results, warning on misses
WebNominal ==
  /\ pc = "web_validate" /\ i = Len(batch)
  /\ nom_codes' = [k \in 1..Len(results) |->
                     IF results[k].invoice # <<>>
                     THEN lookup_nominal_code(results[k].invoice[1].supplier_name)
                     ELSE <<>>]
  /\ results' = [k \in 1..Len(results) |->
                   IF results[k].invoice # <<>>
                      /\ ~truthy(lookup_nominal_code(results[k].invoice[1].supplier_name))
                   THEN [results[k] EXCEPT !.warnings = Append(@, "No nominal code mapping")]
                   ELSE results[k]]
  /\ pc' = "web_open"
  /\ UNCHANGED <<disk, mode, dry_run, batch, i, owner, w, j, decisions,
                 reviews_written, writes, lookups>>

\* ExcelWriter(maintenance_path, create_backup=False); a failure to load
\* the workbook is not caught and ends the run
WebOpen ==
  /\ pc = "web_open"
  /\ \E ok \in BOOLEAN :
       IF ok
       THEN /\ w' = [open |-> TRUE, workbook |-> disk, modified |-> FALSE]
            /\ pc' = "web_update"
       ELSE /\ pc' = "aborted"
            /\ UNCHANGED w
  /\ j' = 0
  /\ UNCHANGED <<disk, mode, dry_run, batch, i, results, owner, nom_codes,
                 decisions, reviews_written, writes, lookups>>

\* one iteration of the auto-update write loop
WebUpdate ==
  /\ pc = "web_update" /\ j < Len(results)
  /\ IF results[j + 1].can_auto_update
     THEN Call(j + 1, "auto", nom_codes[j + 1])
     ELSE UNCHANGED <<w, writes>>
  /\ j' = j + 1
  /\ UNCHANGED <<disk, mode, dry_run, batch, i, pc, results, owner, nom_codes,
                 decisions, reviews_written, lookups>>

\* end of the writer session; the review decisions start undecided
WebExit ==
  /\ pc = "web_update" /\ j = Len(results)
  /\ \E save_ok \in BOOLEAN : Exit(save_ok)
  /\ decisions' = [k \in 1..Len(review_results(results, 1)) |-> "none"]
  /\ pc' = "review"
  /\ UNCHANGED <<mode, dry_run, batch, i, results, owner, nom_codes, j,
                 reviews_written, writes, lookups>>

\* the user presses Confirm Update or Skip on a review card
Decide ==
  /\ pc = "review"
  /\ \E k \in 1..Len(decisions), d \in {"confirmed", "skipped"} :
       /\ decisions[k] = "none"
       /\ decisions' = [decisions EXCEPT ![k] = d]
  /\ UNCHANGED <<disk, mode, dry_run, batch, i, pc, results, owner, nom_codes,
                 w, j, reviews_written, writes, lookups>>

all_reviewed == \A k \in 1..Len(decisions) : decisions[k] # "none"
\* the results (by index) whose review decision is "confirmed"
Confirmed(review, decided) ==
  SelectSeq(review, LAMBDA k : \E q \in 1..Len(decided) :
                                 review[q] = k /\ decided[q] = "confirmed")
confirmed_indices == Confirmed(review_results(results, 1), decisions)

\* all reviews resolved and some confirmed: a new writer session
ConfirmOpen ==
  /\ pc = "review" /\ all_reviewed /\ confirmed_indices # <<>> /\ ~reviews_written
  /\ \E ok \in BOOLEAN :
       IF ok
       THEN /\ w' = [open |-> TRUE, workbook |-> disk, modified |-> FALSE]
            /\ pc' = "confirm_update"
       ELSE /\ pc' = "aborted"
            /\ UNCHANGED w
  /\ j' = 0
  /\ UNCHANGED <<disk, mode, dry_run, batch, i, results, owner, nom_codes,
                 decisions, reviews_written, writes, lookups>>

ConfirmWrite(k) ==
  IF results[k].po_record = <<>>
  THEN /\ pc' = "aborted"
       /\ UNCHANGED <<w, writes>>
  ELSE /\ Call(k, "confirmed", lookup_nominal_code(results[k].invoice[1].supplier_name))
       /\ pc' = pc

ConfirmUpdate ==
  /\ pc = "confirm_update" /\ j < Len(confirmed_indices)
  /\ ConfirmWrite(confirmed_indices[j + 1])
  /\ j' = j + 1
  /\ UNCHANGED <<disk, mode, dry_run, batch, i, results, owner, nom_codes,
                 decisions, reviews_written, lookups>>

ConfirmExit ==
  /\ pc = "confirm_update" /\ j = Len(confirmed_indices)
  /\ \E save_ok \in BOOLEAN : Exit(save_ok)
  /\ reviews_written' = TRUE
  /\ pc' = "done"
  /\ UNCHANGED <<mode, dry_run, batch, i, results, owner, nom_codes, j,
                 decisions, writes, lookups>>

WebDone ==
  /\ pc = "review" /\ all_reviewed /\ confirmed_indices = <<>>
  /\ pc' = "done"
  /\ UNCHANGED <<disk, mode, dry_run, batch, i, results, owner, nom_codes, w, j,
                 decisions, reviews_written, writes, lookups>>

Next ==
  \/ CliProcess \/ CliOpen \/ CliUpdate \/ CliExit \/ CliDone
  \/ WebValidate \/ WebNominal \/ WebOpen \/ WebUpdate \/ WebExit
  \/ Decide \/ ConfirmOpen \/ ConfirmUpdate \/ ConfirmExit \/ WebDone

Spec == Init /\ [][Next]_vars

\* runs on one invoice drawn from the inputs of the single checks
InitChecks == InitWith(LedgersChecks, BatchesChecks)
SpecChecks == InitChecks /\ [][Next]_vars

\* runs that submit the same PDF twice
InitResubmit == InitWith(Ledgers, BatchesResubmit)
SpecResubmit == InitResubmit /\ [][Next]_vars

\* runs on sheets of several layouts: the header under a title row, under
\* a title row that reads 'OUTSTANDING INVOICE NOS', on row 1, and on row 20
\* under 19 title rows
TitleNumbers == [EmptyRow EXCEPT !.c[1] = <<"OUTSTANDING", " ", "INVOICE NO", "S">>]
LayoutTops ==
  {<<TitleRow, HeaderRow>>, <<TitleNumbers, HeaderRow>>, <<HeaderRow>>,
   [r \in 1..(HeaderScanRows - 1) |-> TitleRow] \o <<HeaderRow>>}
\* headers whose invoice-number column is named 'INVOICE NO' and
\* 'Invoice No.', over a row settled with invoice I1
HeaderNamed(invoice_no) == [HeaderRow EXCEPT !.c[6] = invoice_no]
NumberHeaders == {H_INVNO, <<"INVOICE NO">>, <<"Invoice No", ".">>}
LedgersLayouts ==
  {[CJL |-> top \o <<RowOpen, RowMerged>>] : top \in LayoutTops}
  \cup {[CJL |-> <<TitleRow, HeaderNamed(h), RowNumbers(<<"I", "1">>)>>] : h \in NumberHeaders}
InitLayouts == InitWith(LedgersLayouts, Batches)
SpecLayouts == InitLayouts /\ [][Next]_vars

\* --------------------------------------------------------------- workers
\* Worker k runs the body of the processing loop on batch[k]: validate,
\* then, for an auto-update result, one writer session (load the workbook,
\* update, save).  The workers share the file only; a worker opens its
\* writer session when no other session is open.
InitWorkers ==
  /\ disk \in Ledgers
  /\ mode = "workers"
  /\ dry_run = FALSE
  /\ batch \in BatchesWorkers
  /\ i = 0
  /\ pc = "workers"
  /\ results = <<>>
  /\ owner = <<>>
  /\ nom_codes = <<>>
  /\ w = NoWriter
  /\ j = 0
  /\ decisions = <<>>
  /\ reviews_written = FALSE
  /\ writes = <<>>
  /\ lookups = <<>>

\* the results appended for worker k
ResultsOfWorker(k) == {q \in 1..Len(owner) : owner[q] = k}

\* update_po_record was called for results[q]
WrittenFor(q) == \E n \in 1..Len(writes) : writes[n].res = q

WorkerValidated(k, m, io) ==
  /\ results' = Append(results, ValidateMatched(batch[k][1], m))
  /\ owner' = Append(owner, k)
  /\ lookups' = Append(lookups, Looked(m.tried, io))

\* worker k validates its invoice against the file as it is now
WorkerValidate ==
  /\ mode = "workers"
  /\ \E k \in 1..Len(batch) :
       /\ ResultsOfWorker(k) = {}
       /\ \E io \in IOChoices : WorkerValidated(k, find_po_record(disk, batch[k][1], io), io)
  /\ UNCHANGED <<disk, mode, dry_run, batch, i, pc, nom_codes, w, j, decisions,
                 reviews_written, writes>>

\* the worker of the auto-update result results[q] opens its writer
\* session; a failure to load the workbook gives an error result
WorkerOpen ==
  /\ mode = "workers" /\ ~w.open
  /\ \E q \in 1..Len(results) :
       /\ results[q].can_auto_update /\ ~WrittenFor(q)
       /\ ResultsOfWorker(owner[q]) = {q}
       /\ \E ok \in BOOLEAN :
            IF ok
            THEN /\ w' = [open |-> TRUE, workbook |-> disk, modified |-> FALSE]
                 /\ j' = q
                 /\ UNCHANGED <<results, owner>>
            ELSE /\ results' = Append(results, create_error("could not open workbook"))
                 /\ owner' = Append(owner, owner[q])
                 /\ UNCHANGED <<w, j>>
  /\ UNCHANGED <<disk, mode, dry_run, batch, i, pc, nom_codes, decisions,
                 reviews_written, writes, lookups>>

WorkerUpdate ==
  /\ mode = "workers" /\ w.open /\ ~WrittenFor(j)
  /\ Call(j, "auto", <<>>)
  /\ UNCHANGED <<disk, mode, dry_run, batch, i, pc, results, owner, nom_codes, j,
                 decisions, reviews_written, lookups>>

WorkerExit ==
  /\ mode = "workers" /\ w.open /\ WrittenFor(j)
  /\ \E save_ok \in BOOLEAN : Exit(save_ok)
  /\ j' = 0
  /\ UNCHANGED <<mode, dry_run, batch, i, pc, results, owner, nom_codes,
                 decisions, reviews_written, writes, lookups>>

NextWorkers == WorkerValidate \/ WorkerOpen \/ WorkerUpdate \/ WorkerExit

SpecWorkers == InitWorkers /\ [][NextWorkers]_vars

\* ------------------------------------------------------------ properties
\* result res has a failing outcome of the given check name and severity
HasFailing(res, check_name, severity) ==
  \E q \in 1..Len(res.validations) :
    /\ res.validations[q].check_name = check_name
    /\ ~res.validations[q].passed
    /\ res.validations[q].severity = severity

\* result res has a failing outcome of the given severity
AnyFailing(res, severity) ==
  \E q \in 1..Len(res.validations) :
    ~res.validations[q].passed /\ res.validations[q].severity = severity

\* result res was matched to a row whose invoice-number field is non-empty
OnSettledRow(res) ==
  res.po_record # <<>> /\ truthy(strip(res.po_record[1].invoice_no))

\* result res has a 'PO Match' outcome with the given message
MatchedBy(res, message) ==
  \E q \in 1..Len(res.validations) :
    /\ res.validations[q].check_name = "PO Match"
    /\ res.validations[q].passed
    /\ res.validations[q].message = message

\* C1: a result whose matched row is already settled is failed: is_valid
\* and can_auto_update are false and the outcomes hold a failing ERROR
\* 'Duplicate Invoice Check', whichever strategy made the match.
C1_SettledRowIsFailed ==
  \A k \in 1..Len(results) :
    OnSettledRow(results[k]) =>
      /\ ~results[k].is_valid
      /\ ~results[k].can_auto_update
      /\ HasFailing(results[k], "Duplicate Invoice Check", ERROR)

\* C1 witness: a settled row matched by the fuzzy strategy
C1_Witness ==
  \E k \in 1..Len(results) :
    /\ OnSettledRow(results[k])
    /\ MatchedBy(results[k], "Fuzzy matched to PO")
    /\ HasFailing(results[k], "Duplicate Invoice Check", ERROR)

\* C2: update_po_record is never executed on a row whose invoice-number
\* cell is non-empty at the moment of the write.
C2_NoWriteOnSettledRow ==
  \A k \in 1..Len(writes) : ~writes[k].settled

\* C3: a result with a failing ERROR outcome has can_auto_update = false.
C3_BlockingFailureNotAuto ==
  \A k \in 1..Len(results) :
    AnyFailing(results[k], ERROR) => ~results[k].can_auto_update

\* C3 witness: a matched row and a failing ERROR outcome
C3_Witness ==
  \E k \in 1..Len(results) :
    /\ results[k].po_record # <<>>
    /\ AnyFailing(results[k], ERROR)
    /\ ~results[k].can_auto_update

\* C4: a result with a failing WARNING outcome and no failing ERROR
\* outcome is not auto-update.
C4_AdvisoryFailureNotAuto ==
  \A k \in 1..Len(results) :
    (AnyFailing(results[k], WARNING) /\ ~AnyFailing(results[k], ERROR))
      => ~results[k].can_auto_update

\* result res was matched by the fuzzy strategy with a score below the
\* confidence cutoff: its 'PO Match' outcome carries severity WARNING
LowConfidence(res) ==
  \E q \in 1..Len(res.validations) :
    /\ res.validations[q].check_name = "PO Match"
    /\ res.validations[q].passed
    /\ res.validations[q].severity = WARNING

\* C5: a result matched by the fuzzy strategy with a score in [40, 60) is
\* never auto-update, and when the net amount is above the authorization
\* threshold and the row has neither quote nor authorization the outcomes
\* flag the missing authorization beside the low-confidence match.
C5_LowConfidenceNotAuto ==
  \A k \in 1..Len(results) :
    LowConfidence(results[k]) =>
      /\ ~results[k].can_auto_update
      /\ (/\ results[k].invoice[1].net_amount > QuoteThreshold
          /\ ~truthy(strip(results[k].po_record[1].quote_over_200))
          /\ ~truthy(strip(results[k].po_record[1].authorized)))
         => HasFailing(results[k], "Quote Authorization (£200+ Check)", WARNING)

\* every update_po_record call was made for a result that is valid, and
\* either auto-update with dry-run off or a confirmed needs-review result
WritesGated ==
  \A k \in 1..Len(writes) :
    /\ writes[k].is_valid
    /\ writes[k].via = "auto" => (writes[k].can_auto_update /\ ~writes[k].dry_run)
    /\ writes[k].via = "confirmed" => writes[k].needs_review

\* a step that appends a result leaves the file, the writer and the list
\* of update_po_record calls alone
ValidateWritesNothing ==
  Len(results') > Len(results) => UNCHANGED <<disk, w, writes>>

C7_FailedWriteChangesNothing ==
  \A k \in 1..Len(writes) : ~writes[k].ok => writes[k].after = writes[k].before

\* C8: no PDF of the batch has two results, the run is never cut short, and
\* at the end every PDF has exactly one result.
C8_OneResultPerInvoice ==
  /\ \A p \in 1..Len(batch) : Cardinality({k \in 1..Len(owner) : owner[k] = p}) <= 1
  /\ pc # "aborted"
  /\ pc = "done" => Len(results) = Len(batch)

\* C9: a validate call during which a sheet read failed does not produce
\* the failing 'PO Match' outcome of an ordinary lookup failure.
C9_ReadFailureIsNotNoMatch ==
  \A q \in 1..Len(lookups) :
    lookups[q].read_failed => ~HasFailing(results[lookups[q].res], "PO Match", ERROR)

\* the supplier type of the invoice, in any case, is a key of the sheet map
KnownType(invoice) ==
  Len(upper(invoice.supplier_type)) = 1
  /\ upper(invoice.supplier_type)[1] \in DOMAIN SUPPLIER_SHEET_MAP

\* C10: exactly the invoices whose supplier type (compared without case)
\* maps to no sheet get no row and a single outcome, a failing ERROR 'Sheet
\* Selection'; no reader lookup is made for them.
C10_UnknownTypeShortCircuits ==
  \A q \in 1..Len(lookups) :
    IF KnownType(results[lookups[q].res].invoice[1])
    THEN ~HasFailing(results[lookups[q].res], "Sheet Selection", ERROR)
    ELSE /\ results[lookups[q].res].po_record = <<>>
         /\ Len(results[lookups[q].res].validations) = 1
         /\ HasFailing(results[lookups[q].res], "Sheet Selection", ERROR)
         /\ ~HasFailing(results[lookups[q].res], "PO Match", ERROR)
         /\ lookups[q].tried = <<>>

\* C10 witness: an unknown type short-circuited beside a lower-case known
\* type that was looked up
C10_Witness ==
  /\ \E q \in 1..Len(lookups) :
       /\ ~KnownType(results[lookups[q].res].invoice[1])
       /\ lookups[q].tried = <<>>
  /\ \E q \in 1..Len(lookups) :
       /\ results[lookups[q].res].invoice[1].supplier_type = <<"cjl">>
       /\ lookups[q].tried # <<>>

\* the result of validate call q, its invoice and its only sheet
ResultOf(q) == results[lookups[q].res]
InvoiceOf(q) == results[lookups[q].res].invoice[1]

\* validate call q read the file as it is now: nothing was written since,
\* and every sheet read it made succeeded
ReadsCurrentFile(q) == writes = <<>> /\ ~lookups[q].read_failed

\* the outcome v names exactly the first min(3, n) of the candidates
NamesClosest(v, candidates) ==
  /\ Len(v.closest) = MinI(3, Len(candidates))
  /\ \A n \in 1..Len(v.closest) :
       /\ v.closest[n].score = candidates[n].score
       /\ v.closest[n].po_number = candidates[n].po_record.po_number
       /\ v.closest[n].store = candidates[n].po_record.store

\* the single outcome of a failed match: names the closest candidates when
\* there are candidates, all below the acceptance threshold, and none when
\* the candidate list is empty
NoMatchOutcome(v, candidates) ==
  /\ v.check_name = "PO Match" /\ ~v.passed /\ v.severity = ERROR
  /\ NamesClosest(v, candidates)
  /\ IF candidates = <<>>
     THEN v.message = "No matching PO record found"
     ELSE /\ v.message = "No confident match found"
          /\ ~ScoreGE(candidates[1].score, FUZZY_MATCH_THRESHOLD)

\* C11 as claimed: a result without a row for a known supplier type has
\* exactly one outcome, a failing ERROR 'PO Match', naming 1 to 3 closest
\* candidates, also when the candidate list is empty.
C11_NoMatchNamesOneToThree ==
  \A q \in 1..Len(lookups) :
    (KnownType(InvoiceOf(q)) /\ ResultOf(q).po_record = <<>>) =>
      /\ Len(ResultOf(q).validations) = 1
      /\ HasFailing(ResultOf(q), "PO Match", ERROR)
      /\ Len(ResultOf(q).validations[1].closest) \in 1..3

\* C11 amended: a result without a row for a known supplier type has
\* exactly one outcome, a failing ERROR 'PO Match'; it names at most 3
\* candidates, the first min(3, n) of the n fuzzy candidates in score
\* order when the best scores below 40, and none when the list is empty.
C11_NoMatchNamesUpToThree ==
  \A q \in 1..Len(lookups) :
    (KnownType(InvoiceOf(q)) /\ ResultOf(q).po_record = <<>>) =>
      /\ Len(ResultOf(q).validations) = 1
      /\ HasFailing(ResultOf(q), "PO Match", ERROR)
      /\ Len(ResultOf(q).validations[1].closest) <= 3
      /\ ReadsCurrentFile(q) =>
           NoMatchOutcome(ResultOf(q).validations[1],
                          find_po_candidates(disk, "CJL", InvoiceOf(q), TRUE))

\* C11 witness: a failed match naming three of four candidates, in a run
\* that read the file without failure
C11_Witness ==
  \E q \in 1..Len(lookups) :
    /\ ReadsCurrentFile(q)
    /\ ResultOf(q).po_record = <<>>
    /\ Len(ResultOf(q).validations[1].closest) = 3
    /\ Len(find_po_candidates(disk, "CJL", InvoiceOf(q), TRUE)) = 4

\* the number of 'PO Match' outcomes of result res
PoMatchCount(res) ==
  Cardinality({n \in 1..Len(res.validations) : res.validations[n].check_name = "PO Match"})

\* validate call q made exactly the reader lookups `expected`, in order
Consulted(q, expected) == lookups[q].tried = expected

\* the lookups before the fuzzy scan that the invoice's fields allow
KeyLookup(invoice) == IF truthy(strip(invoice.po_number)) THEN <<"find_po_record">> ELSE <<>>
NumberLookup(invoice) == IF truthy(strip(invoice.invoice_number)) THEN <<"find_by_invoice_number">> ELSE <<>>

\* the row and the lookups of validate call q are those of the first
\* strategy that succeeds on the file, given the hits r1, r2 and the
\* candidate list that the three strategies have on it
FirstSuccess(q, r1, r2, candidates) ==
  IF truthy(strip(InvoiceOf(q).po_number)) /\ r1 # <<>>
  THEN /\ ResultOf(q).po_record = r1
       /\ Consulted(q, <<"find_po_record">>)
       /\ MatchedBy(ResultOf(q), "PO found in sheet")
  ELSE IF truthy(strip(InvoiceOf(q).invoice_number)) /\ r2 # <<>>
  THEN /\ ResultOf(q).po_record = r2
       /\ Consulted(q, KeyLookup(InvoiceOf(q)) \o <<"find_by_invoice_number">>)
       /\ MatchedBy(ResultOf(q), "Invoice already recorded in sheet")
  ELSE /\ Consulted(q, KeyLookup(InvoiceOf(q)) \o NumberLookup(InvoiceOf(q)) \o <<"find_po_candidates">>)
       /\ IF candidates # <<>> /\ ScoreGE(candidates[1].score, FUZZY_MATCH_THRESHOLD)
          THEN /\ ResultOf(q).po_record = <<candidates[1].po_record>>
               /\ MatchedBy(ResultOf(q), "Fuzzy matched to PO")
          ELSE ResultOf(q).po_record = <<>>

\* C12: the matcher returns the hit of the first strategy that succeeds, in
\* the order PO key (only with a PO reference), invoice number (only with
\* an invoice number), fuzzy scan, and consults no later strategy; every
\* result for a known supplier type has exactly one 'PO Match' outcome,
\* which is the first of its outcomes.
C12_FirstSuccessWins ==
  \A q \in 1..Len(lookups) :
    KnownType(InvoiceOf(q)) =>
      /\ PoMatchCount(ResultOf(q)) = 1
      /\ ResultOf(q).validations[1].check_name = "PO Match"
      /\ ReadsCurrentFile(q) =>
           FirstSuccess(q,
             Reader_find_po_record(disk, InvoiceOf(q).po_number, get_sheet_name(InvoiceOf(q).supplier_type), TRUE),
             find_by_invoice_number(disk, InvoiceOf(q).invoice_number, get_sheet_name(InvoiceOf(q).supplier_type), TRUE),
             find_po_candidates(disk, get_sheet_name(InvoiceOf(q).supplier_type), InvoiceOf(q), TRUE))

\* C12 witness: the PO key hit one row while the invoice number is recorded
\* on another row, and the invoice-number lookup was not consulted
C12_Witness ==
  \E q \in 1..Len(lookups) :
    /\ ReadsCurrentFile(q)
    /\ Consulted(q, <<"find_po_record">>)
    /\ ResultOf(q).po_record # <<>>
    /\ find_by_invoice_number(disk, InvoiceOf(q).invoice_number, get_sheet_name(InvoiceOf(q).supplier_type), TRUE) # <<>>
    /\ find_by_invoice_number(disk, InvoiceOf(q).invoice_number, get_sheet_name(InvoiceOf(q).supplier_type), TRUE) # ResultOf(q).po_record

\* the row that write k addressed, and the invoice it recorded
WrittenRecord(k) == results[writes[k].res].po_record[1]
WrittenInvoice(k) == results[writes[k].res].invoice[1]

\* write k succeeded and the file now holds the workbook it produced
SavedWrite(k) == writes[k].ok /\ ~w.open /\ disk = writes[k].after

\* the invoice-number lookup on the file returns the row that write k addressed
FoundWhereWritten(k, found) ==
  found # <<>> /\ found[1].row_index = WrittenRecord(k).row_index

\* C13: after update_po_record succeeded on the row a lookup returned and
\* the workbook was saved, find_by_invoice_number with the same invoice
\* number on the saved file returns a record with the same row_index.
C13_RoundTrip ==
  \A k \in 1..Len(writes) :
    SavedWrite(k) =>
      FoundWhereWritten(k, find_by_invoice_number(disk, WrittenInvoice(k).invoice_number, WrittenRecord(k).sheet_name, TRUE))

\* the first PDF of the run was validated once, auto-updated onto a row,
\* and the file was saved: the next PDF is validated against that file
SettledAndSaved ==
  /\ mode = "cli" /\ pc = "cli_next" /\ i = 1
  /\ Len(lookups) = 1
  /\ Len(writes) = 1 /\ writes[1].ok /\ writes[1].via = "auto"
  /\ disk = writes[1].after

\* the step validates a PDF with every sheet read succeeding
ValidatesOnFile ==
  /\ Len(lookups') = Len(lookups) + 1
  /\ ~lookups'[Len(lookups')].read_failed

\* the validation of the step matched a settled row, by PO key or by the
\* recorded invoice number, gave a failed result with a failing 'Duplicate
\* Invoice Check', and the loop goes on to the next PDF without a write
RefusedAsDuplicate ==
  /\ OnSettledRow(results'[Len(results')])
  /\ \/ MatchedBy(results'[Len(results')], "PO found in sheet")
     \/ MatchedBy(results'[Len(results')], "Invoice already recorded in sheet")
  /\ ~results'[Len(results')].is_valid
  /\ ~results'[Len(results')].can_auto_update
  /\ HasFailing(results'[Len(results')], "Duplicate Invoice Check", ERROR)
  /\ pc' = "cli_next" /\ i' = i + 1
  /\ UNCHANGED <<disk, w, writes>>

\* C14: once an invoice was auto-updated onto a row and the file saved,
\* validating the same invoice again on that file matches a settled row by
\* PO key or by recorded invoice number, gives a failed result with a
\* failing duplicate outcome, and makes no second write.
C14_ResubmissionRefused ==
  [][(SettledAndSaved /\ batch[2] = batch[1] /\ ValidatesOnFile) => RefusedAsDuplicate]_vars

\* the positions of the outcomes of result res with the given check name,
\* and the only such outcome
OutcomesOf(res, check_name) ==
  {n \in 1..Len(res.validations) : res.validations[n].check_name = check_name}
TheOutcome(res, check_name) ==
  res.validations[CHOOSE n \in OutcomesOf(res, check_name) : TRUE]

\* result res was matched to a row that is not settled: the policy checks ran
OnOpenRow(res) == res.po_record # <<>> /\ ~is_invoiced(res.po_record[1])

\* a field is empty after trimming
Blank(field) == strip(field) = <<>>

\* v is an informational pass
InfoPass(v) == v.passed /\ v.severity = INFO

\* v is the advisory failure of the spend-authorization check for the row
\* po: never ERROR, its message tells which of the two fields is missing,
\* and it ends with the row's sheet and its 1-based number among the data rows
MissingAuthorization(v, po) ==
  /\ ~v.passed /\ v.severity = WARNING
  /\ v.message = IF ~Blank(po.quote_over_200) THEN "quote present but AUTHORISED is empty"
                 ELSE IF Blank(po.authorized) THEN "QUOTE OVER £200 and AUTHORISED are both empty"
                 ELSE "authorized but QUOTE OVER £200 is empty"
  /\ v.where = <<[sheet |-> po.sheet_name, row |-> po.row_index + 1]>>

\* the spend-authorization outcome v is the one claimed for net amount net
\* and row po
AuthorizationAsClaimed(v, net, po) ==
  IF net <= QuoteThreshold THEN InfoPass(v)
  ELSE IF ~Blank(po.quote_over_200) /\ ~Blank(po.authorized) THEN InfoPass(v)
  ELSE MissingAuthorization(v, po)

\* C15: the spend-authorization outcome of a result on an open row is an
\* informational pass when net <= 200.00 whatever the row's fields hold;
\* when net > 200.00 it is an informational pass iff the quote-reference and
\* authorized-by fields are both non-empty after trimming, and otherwise a
\* failing WARNING whose message tells which field is missing and names the
\* row's sheet and row number.
C15_SpendAuthorization ==
  \A k \in 1..Len(results) :
    OnOpenRow(results[k]) =>
      /\ Cardinality(OutcomesOf(results[k], "Quote Authorization (£200+ Check)")) = 1
      /\ AuthorizationAsClaimed(TheOutcome(results[k], "Quote Authorization (£200+ Check)"),
                                results[k].invoice[1].net_amount, results[k].po_record[1])

\* C15 witness: net just above the threshold on a row whose quote-reference
\* cell is white space and whose authorized-by cell is filled: the advisory
\* failure that reports the quote reference missing
C15_Witness ==
  \E k \in 1..Len(results) :
    /\ OnOpenRow(results[k])
    /\ results[k].invoice[1].net_amount = QuoteThreshold + 1
    /\ disk.CJL[3] = CheckRow(<<" ">>, <<"JB">>)
    /\ HasFailing(results[k], "Quote Authorization (£200+ Check)", WARNING)
    /\ TheOutcome(results[k], "Quote Authorization (£200+ Check)").message = "authorized but QUOTE OVER £200 is empty"

\* the amount-sanity outcome v is the one claimed for net amount net
AmountAsClaimed(v, net) ==
  IF net <= 0 THEN ~v.passed /\ v.severity = ERROR
  ELSE IF net > HighAmount THEN v.passed /\ v.severity = WARNING
  ELSE InfoPass(v)

\* C16: on a matched open row the amount-sanity outcome is a failing ERROR
\* when net <= 0, and the result is then failed whatever its other outcomes
\* are; a passing WARNING when net > 10,000.00; a passing INFO otherwise.
C16_AmountSanity ==
  \A k \in 1..Len(results) :
    OnOpenRow(results[k]) =>
      /\ Cardinality(OutcomesOf(results[k], "Amount Validation")) = 1
      /\ AmountAsClaimed(TheOutcome(results[k], "Amount Validation"), results[k].invoice[1].net_amount)
      /\ results[k].invoice[1].net_amount <= 0 =>
           (~results[k].is_valid /\ ~results[k].can_auto_update)

\* C16 witness: a net amount of zero on an open row found by PO key; the
\* amount outcome is the only failing one and the result is failed
C16_Witness ==
  \E k \in 1..Len(results) :
    /\ OnOpenRow(results[k])
    /\ MatchedBy(results[k], "PO found in sheet")
    /\ results[k].invoice[1].net_amount = 0
    /\ \A n \in 1..Len(results[k].validations) :
         ~results[k].validations[n].passed => results[k].validations[n].check_name = "Amount Validation"
    /\ ~results[k].is_valid

\* the tax-consistency outcome v is the one claimed for the invoice: with
\* tax and total both present (zero included) it tells whether net + tax
\* is within the tolerance of the total; 'not verified' only when one of
\* them is absent
TaxAsClaimed(v, invoice) ==
  IF invoice.vat_amount # <<>> /\ invoice.total_amount # <<>>
  THEN IF Abs(invoice.net_amount + invoice.vat_amount[1] - invoice.total_amount[1]) <= VatTolerance
       THEN InfoPass(v) /\ v.message = "VAT calculation correct"
       ELSE ~v.passed /\ v.severity = WARNING
  ELSE InfoPass(v) /\ v.message = "VAT calculation not verified (missing data)"

\* C17: on a matched open row, when net, tax and total are all present (a
\* tax or total of zero included) the tax-consistency outcome is a passing
\* INFO iff |net + tax - total| <= 0.02 and a failing WARNING otherwise,
\* which alone does not make the result failed; the 'not verified' pass is
\* given only when one of the values is absent.
C17_TaxConsistency ==
  \A k \in 1..Len(results) :
    OnOpenRow(results[k]) =>
      /\ Cardinality(OutcomesOf(results[k], "VAT Calculation")) = 1
      /\ TaxAsClaimed(TheOutcome(results[k], "VAT Calculation"), results[k].invoice[1])
      /\ ~AnyFailing(results[k], ERROR) => results[k].is_valid

\* the 'Store Match' outcome v is the one claimed for the similarity
StoreAsClaimed(v, similarity) ==
  IF similarity >= StoreMatchInfo THEN InfoPass(v)
  ELSE IF similarity >= StoreMatchWarn THEN v.passed /\ v.severity = WARNING
  ELSE ~v.passed /\ v.severity = ERROR

\* C18: a matched result has exactly one 'Store Match' outcome when the
\* invoice and the row both carry a store label: passing INFO at similarity
\* >= 70, passing WARNING at 50 to 69, failing ERROR below 50; it has no
\* 'Store Match' outcome when either label is empty.
C18_StoreIdentity ==
  \A k \in 1..Len(results) :
    results[k].po_record # <<>> =>
      IF results[k].invoice[1].store_location # <<>> /\ results[k].po_record[1].store # <<>>
      THEN /\ Cardinality(OutcomesOf(results[k], "Store Match")) = 1
           /\ StoreAsClaimed(TheOutcome(results[k], "Store Match"),
                             fuzzy_match_score(results[k].invoice[1].store_location, results[k].po_record[1].store))
      ELSE OutcomesOf(results[k], "Store Match") = {}

\* C18 witness: a similarity of exactly 50 gave a passing WARNING
C18_Witness ==
  \E k \in 1..Len(results) :
    /\ results[k].po_record # <<>>
    /\ fuzzy_match_score(results[k].invoice[1].store_location, results[k].po_record[1].store) = StoreMatchWarn
    /\ TheOutcome(results[k], "Store Match").passed
    /\ TheOutcome(results[k], "Store Match").severity = WARNING

\* the check names of the matcher: the match and the post-match checks
MatcherChecks == {"PO Match", "PO Number Warning", "Duplicate Invoice Check", "Store Match"}

\* the check names of the policy checks that follow the duplicate check
PolicyChecks == {"Nominal Code", "Quote Authorization (£200+ Check)", "Amount Validation", "VAT Calculation"}

\* result res has an outcome of one of the given check names
HasOutcomeOf(res, check_names) ==
  \E n \in 1..Len(res.validations) : res.validations[n].check_name \in check_names

\* C19: a result matched to a settled row has no nominal-code,
\* spend-authorization, amount-sanity or tax-consistency outcome: its
\* outcomes are those of the match and the post-match checks, the failing
\* duplicate check among them.
C19_HaltsAtDuplicate ==
  \A k \in 1..Len(results) :
    OnSettledRow(results[k]) =>
      /\ ~HasOutcomeOf(results[k], PolicyChecks)
      /\ \A n \in 1..Len(results[k].validations) : results[k].validations[n].check_name \in MatcherChecks
      /\ HasFailing(results[k], "Duplicate Invoice Check", ERROR)

\* C19 witness: a settled row found by the recorded invoice number; the
\* result ends with the store check, its third and last outcome
C19_Witness ==
  \E k \in 1..Len(results) :
    /\ OnSettledRow(results[k])
    /\ MatchedBy(results[k], "Invoice already recorded in sheet")
    /\ Len(results[k].validations) = 3
    /\ results[k].validations[3].check_name = "Store Match"

\* C20: a result matched to an open row whose store check failed with a
\* similarity below 50 has no spend-authorization, amount-sanity or
\* tax-consistency outcome.
C20_StoreFailureHalts ==
  \A k \in 1..Len(results) :
    (OnOpenRow(results[k]) /\ HasFailing(results[k], "Store Match", ERROR)) =>
      ~HasOutcomeOf(results[k], {"Quote Authorization (£200+ Check)", "Amount Validation", "VAT Calculation"})

\* row r of the grid ws; a row beyond the last one is an empty row
RowOf(ws, r) == IF r <= Len(ws) THEN ws[r] ELSE EmptyRow

\* the cell of the column headed column_name in row r of the grid ws
CellUnder(ws, r, column_name) ==
  CellAt(ws, r, _find_column(ws, _find_header_row(ws), column_name))

\* the grids of the sheet that write k addressed, before and after the call
GridBefore(k) == writes[k].before[WrittenRecord(k).sheet_name]
GridAfter(k) == writes[k].after[WrittenRecord(k).sheet_name]

\* write k, when it succeeded, left the row holding the invoice number,
\* the amount and the date of the call
WroteSettlement(k) ==
  /\ CellUnder(GridAfter(k), writes[k].row, H_INVNO) = WrittenInvoice(k).invoice_number
  /\ CellUnder(GridAfter(k), writes[k].row, H_AMOUNT) = AmountText(WrittenInvoice(k).net_amount)
  /\ CellUnder(GridAfter(k), writes[k].row, H_SIGNED) = TODAY

\* write k left the nominal-code cell of its row as it was
NominalKept(k) ==
  CellUnder(GridAfter(k), writes[k].row, H_NOMINAL) = CellUnder(GridBefore(k), writes[k].row, H_NOMINAL)

\* write k changed no row but the one it addressed
OtherRowsKept(k) ==
  \A r \in 1..MaxI(Len(GridBefore(k)), Len(GridAfter(k))) :
    r # writes[k].row => RowOf(GridAfter(k), r) = RowOf(GridBefore(k), r)

WorkersDone ==
  /\ ~w.open
  /\ \A k \in 1..Len(batch) : ResultsOfWorker(k) # {}
  /\ \A q \in 1..Len(results) :
       results[q].can_auto_update => (WrittenFor(q) \/ ResultsOfWorker(owner[q]) # {q})

\* the file was saved by the session of every successful write: the file
\* holds what the last write produced, and every later write started from
\* what the one before it produced
EverySessionSaved ==
  /\ writes # <<>> => disk = writes[Len(writes)].after
  /\ \A n \in 2..Len(writes) : writes[n].before = writes[n - 1].after

\* the settlement of the successful write n is in the file
SettlementInFile(n) ==
  CellUnder(disk[WrittenRecord(n).sheet_name], writes[n].row, H_INVNO) = WrittenInvoice(n).invoice_number

\* the successful write n did not settle a row that another invoice had settled
SettledOnce(n) ==
  \/ Blank(CellUnder(GridBefore(n), writes[n].row, H_INVNO))
  \/ CellUnder(GridBefore(n), writes[n].row, H_INVNO) = WrittenInvoice(n).invoice_number

\* C22: with workers that each validate and then write, one writer session
\* open at a time, once all workers are done and every session was saved
\* the file holds the settlement of every successful write, and no write
\* settled a row that another invoice had settled.
C22_SerializedWritersSafe ==
  \A n \in 1..Len(writes) :
    writes[n].ok =>
      /\ SettledOnce(n)
      /\ (WorkersDone /\ EverySessionSaved) => SettlementInFile(n)

\* validate call q reached the fuzzy scan
ReachedFuzzy(q) ==
  KnownType(InvoiceOf(q)) /\ lookups[q].tried # <<>> /\ lookups[q].tried[Len(lookups[q].tried)] = "find_po_candidates"

\* the outcomes of an accepted fuzzy match: a passing 'PO Match' first,
\* informational from score 60 and advisory below, and one passing advisory
\* 'PO Number Warning' exactly when the invoice carries no PO reference
FuzzyOutcomes(res, best_score) ==
  /\ res.validations[1].check_name = "PO Match"
  /\ res.validations[1].passed
  /\ res.validations[1].severity = (IF ScoreGE(best_score, 60) THEN INFO ELSE WARNING)
  /\ Cardinality(OutcomesOf(res, "PO Number Warning")) = (IF res.invoice[1].po_number = <<>> THEN 1 ELSE 0)
  /\ \A n \in 1..Len(res.validations) :
       res.validations[n].check_name = "PO Number Warning" =>
         res.validations[n].passed /\ res.validations[n].severity = WARNING

\* the fuzzy strategy of validate call q on the candidate list of the file
FuzzyAsClaimed(q, candidates) ==
  /\ ResultOf(q).po_record # <<>> <=>
       (candidates # <<>> /\ ScoreGE(candidates[1].score, 40))
  /\ ResultOf(q).po_record # <<>> =>
       /\ ResultOf(q).po_record = <<candidates[1].po_record>>
       /\ FuzzyOutcomes(ResultOf(q), candidates[1].score)

\* C23: when the fuzzy strategy is reached the top candidate is accepted
\* iff its score is at least 40; on acceptance the 'PO Match' outcome is
\* informational if the score is at least 60 and advisory otherwise, and an
\* advisory 'PO Number Warning' outcome is emitted iff the invoice had no PO
\* reference.
C23_FuzzyAcceptance ==
  \A q \in 1..Len(lookups) :
    (ReachedFuzzy(q) /\ ReadsCurrentFile(q)) =>
      FuzzyAsClaimed(q, find_po_candidates(disk, get_sheet_name(InvoiceOf(q).supplier_type), InvoiceOf(q), TRUE))

\* C23 witness: a top candidate scoring exactly 40 was accepted for an
\* invoice without PO reference, with an advisory 'PO Match' and a
\* 'PO Number Warning'
C23_Witness ==
  \E q \in 1..Len(lookups) :
    /\ ReachedFuzzy(q) /\ ReadsCurrentFile(q)
    /\ InvoiceOf(q).po_number = <<>>
    /\ ResultOf(q).po_record # <<>>
    /\ ~ScoreGT(find_po_candidates(disk, "CJL", InvoiceOf(q), TRUE)[1].score, [num |-> 160, den |-> 1])
    /\ ResultOf(q).validations[1].severity = WARNING
    /\ Cardinality(OutcomesOf(ResultOf(q), "PO Number Warning")) = 1

\* the table that find_po_candidates scans for validate call q
TableOf(q) == _read_sheet_with_header_detection(disk, get_sheet_name(InvoiceOf(q).supplier_type), TRUE)[1]

\* the amount component of a row's score is not 0
AmountCounts(df, row, invoice) ==
  LET ref_amount == RefAmount(AmountCell(df, row, MinOr({k \in 1..Len(df.columns) : contains(upper(df.columns[k]), <<"INVOICE AMOUNT">>)}, 0)),
                              QuoteAmount(Field(df, row, H_QUOTE)))
  IN  invoice.net_amount # 0 /\ ref_amount # <<>> /\ ref_amount[1] > 0

\* the three score components of a row are all 0
AllComponentsZero(df, row, invoice) ==
  /\ StorePart(Field(df, row, H_STORE), invoice) = 0
  /\ CompanyPart(Or(Field(df, row, H_COMPANY), Field(df, row, <<"SUPPLIER">>)), invoice) = 0
  /\ ~AmountCounts(df, row, invoice)

\* the candidates are the rows of the table with a non-zero component
ExcludesOnlyZeroRows(df, invoice, candidates) ==
  {candidates[n].po_record.row_index : n \in 1..Len(candidates)}
    = {r - 1 : r \in {t \in 1..Len(df.data) : ~AllComponentsZero(df, df.data[t], invoice)}}

\* descending by score, rows of equal score in table order
SortedStable(candidates) ==
  \A m, n \in 1..Len(candidates) :
    m < n =>
      /\ ~ScoreGT(candidates[n].score, candidates[m].score)
      /\ ScoreGT(candidates[m].score, candidates[n].score)
           \/ candidates[m].po_record.row_index < candidates[n].po_record.row_index

\* every score is in 0..100
ScoresInRange(candidates) ==
  \A n \in 1..Len(candidates) :
    candidates[n].score.num >= 0 /\ ~ScoreGT(candidates[n].score, [num |-> ScoreScale * 100, den |-> 1])

\* the scan that validate call q made agrees with a scan run now: the same
\* row accepted, the same candidates named on a failed match
SameOnRerun(q, candidates) ==
  IF ResultOf(q).po_record # <<>>
  THEN ResultOf(q).po_record = <<candidates[1].po_record>>
  ELSE ResultOf(q).validations[1].closest = Closest(Take(candidates, 3))

CandidatesAsClaimed(q, df, candidates) ==
  /\ ExcludesOnlyZeroRows(df, InvoiceOf(q), candidates)
  /\ SortedStable(candidates)
  /\ ScoresInRange(candidates)
  /\ SameOnRerun(q, candidates)

\* C24: find_po_candidates excludes exactly the rows whose three score
\* components are all 0, returns the others sorted by score descending with
\* ties in table order, every score in 0..100, and the same list when run
\* again on the unchanged file.
C24_CandidateList ==
  \A q \in 1..Len(lookups) :
    (ReachedFuzzy(q) /\ ReadsCurrentFile(q)) =>
      CandidatesAsClaimed(q, TableOf(q), find_po_candidates(disk, get_sheet_name(InvoiceOf(q).supplier_type), InvoiceOf(q), TRUE))

\* the characters that separate the invoice numbers of a cell
Delimiters == {NL, ",", ";", "/"}

\* the pieces of s between delimiters
RECURSIVE Tokens(_, _)
Tokens(s, cur) ==
  IF s = <<>> THEN <<cur>>
  ELSE IF Head(s) \in Delimiters THEN <<cur>> \o Tokens(Tail(s), <<>>)
  ELSE Tokens(Tail(s), Append(cur, Head(s)))

\* the target equals one whole token of the cell, trimmed, in any case
HasToken(cell_val, target) ==
  \E n \in 1..Len(Tokens(cell_val, <<>>)) :
    upper(strip(Tokens(cell_val, <<>>)[n])) = upper(strip(target))

\* the first row of the table whose invoice-number cell has the target as
\* a token, as a record, or <<>>
FirstWithToken(df, inv_col, target, sheet_name) ==
  IF inv_col = 0 THEN <<>>
  ELSE RecordAt(df, sheet_name,
                MinOr({r \in 1..Len(df.data) : HasToken(df.data[r].c[inv_col], target)}, 0))

\* validate call q consulted the invoice-number lookup
ConsultedNumber(q) ==
  KnownType(InvoiceOf(q)) /\ \E n \in 1..Len(lookups[q].tried) : lookups[q].tried[n] = "find_by_invoice_number"

\* the invoice-number lookup of validate call q ended the cascade with
\* the row `claimed`, or went on to the fuzzy scan when there is none
NumberLookupGave(q, claimed) ==
  IF claimed # <<>>
  THEN /\ lookups[q].tried[Len(lookups[q].tried)] = "find_by_invoice_number"
       /\ ResultOf(q).po_record = claimed
  ELSE lookups[q].tried[Len(lookups[q].tried)] = "find_po_candidates"

\* C25: find_by_invoice_number succeeds on a row iff the target equals one
\* whole token of the row's invoice-number cell, tokens separated by
\* newlines or other delimiters and compared trimmed and case-insensitively;
\* a target that is only a substring of a recorded number does not match;
\* the first such row in table order is returned.
C25_WholeTokenMatch ==
  \A q \in 1..Len(lookups) :
    (ConsultedNumber(q) /\ ReadsCurrentFile(q)) =>
      NumberLookupGave(q, FirstWithToken(TableOf(q),
                                         MinOr({k \in 1..Len(TableOf(q).columns) : contains(upper(TableOf(q).columns[k]), <<"INVOICE NO">>)}, 0),
                                         InvoiceOf(q).invoice_number, get_sheet_name(InvoiceOf(q).supplier_type)))

\* validate call q consulted the key lookup
ConsultedKey(q) ==
  KnownType(InvoiceOf(q)) /\ lookups[q].tried # <<>> /\ lookups[q].tried[1] = "find_po_record"

\* the positions (from 0) of the rows of the table whose PO cell, as
\* written, contains the text
RowsContaining(df, text) ==
  {r - 1 : r \in {t \in 1..Len(df.data) : contains(Get(df, df.data[t], H_PO), text)}}

\* the positions (from 0) of the rows whose PO cell contains the text when
\* both are taken in upper case
RowsContainingFolded(df, text) ==
  {r - 1 : r \in {t \in 1..Len(df.data) : contains(upper(Get(df, df.data[t], H_PO)), upper(text))}}

\* the key lookup of validate call q ended the cascade with the first of
\* the rows at `positions`, or went on when there is none
KeyLookupGave(q, df, positions) ==
  IF positions # {}
  THEN /\ lookups[q].tried = <<"find_po_record">>
       /\ ResultOf(q).po_record # <<>>
       /\ ResultOf(q).po_record[1].row_index = Min(positions)
       /\ ResultOf(q).po_record[1] = _row_to_po_record(df, df.data[Min(positions) + 1], ResultOf(q).po_record[1].sheet_name, Min(positions))
  ELSE Len(lookups[q].tried) > 1

\* C26 as claimed: the key lookup returns a row iff some row's PO cell
\* contains the trimmed, upper-cased key; of several such rows it returns
\* the first in table order, with row_index its position in the table
\* just read.
C26_KeyInCell ==
  \A q \in 1..Len(lookups) :
    (ConsultedKey(q) /\ ReadsCurrentFile(q)) =>
      KeyLookupGave(q, TableOf(q), RowsContaining(TableOf(q), upper(strip(InvoiceOf(q).po_number))))

\* C26 amended: the key lookup returns a row iff some row's PO cell, taken
\* in upper case, contains the trimmed, upper-cased key; of several such
\* rows it returns the first in table order, with row_index its position
\* in the table just read.
C26_KeyInFoldedCell ==
  \A q \in 1..Len(lookups) :
    (ConsultedKey(q) /\ ReadsCurrentFile(q)) =>
      KeyLookupGave(q, TableOf(q), RowsContainingFolded(TableOf(q), strip(InvoiceOf(q).po_number)))

\* C26 witness: the key C1 is within the longer key of the first row and is
\* the key of the second row, and the lookup returned the first row
C26_Witness ==
  \E q \in 1..Len(lookups) :
    /\ ConsultedKey(q) /\ ReadsCurrentFile(q)
    /\ RowsContainingFolded(TableOf(q), strip(InvoiceOf(q).po_number)) = {0, 1}
    /\ ResultOf(q).po_record # <<>>
    /\ ResultOf(q).po_record[1].row_index = 0
    /\ ResultOf(q).po_record[1].po_number = <<"X", "C", "1", "2">>

\* the ordered list of (check name, passed, severity) of a result
OutcomeList(res) ==
  [n \in 1..Len(res.validations) |->
     <<res.validations[n].check_name, res.validations[n].passed, res.validations[n].severity>>]

\* the disposition that an outcome list determines: valid, and written
\* without review, when no outcome is a failing ERROR
DispositionOf(outcomes) ==
  ~\E n \in 1..Len(outcomes) : ~outcomes[n][2] /\ outcomes[n][3] = ERROR

\* what a result is reported under: the two flags, the status of the
\* reports and the review bucket of the web app
Classification(res) ==
  [is_valid |-> res.is_valid, can_auto_update |-> res.can_auto_update,
   status |-> get_status_summary(res), review |-> needs_review(res)]

\* results with equal outcome lists have equal flags, which are those the
\* outcome list determines
SameOutcomesSameDisposition ==
  /\ \A a, b \in 1..Len(results) :
       OutcomeList(results[a]) = OutcomeList(results[b]) =>
         /\ results[a].is_valid = results[b].is_valid
         /\ results[a].can_auto_update = results[b].can_auto_update
  /\ \A a \in 1..Len(results) :
       /\ results[a].is_valid = DispositionOf(OutcomeList(results[a]))
       /\ results[a].can_auto_update = DispositionOf(OutcomeList(results[a]))

\* a step keeps every result of the list and its classification
ClassificationKept ==
  /\ Len(results') >= Len(results)
  /\ \A k \in 1..Len(results) : Classification(results'[k]) = Classification(results[k])

\* C27: is_valid and can_auto_update are a function of the ordered list
\* of (check name, passed, severity) of a result, and no step after
\* finalize, the web app's appending to warnings included, changes the
\* classification a result is reported under.
C27_DispositionIsPure == [](SameOutcomesSameDisposition) /\ [][ClassificationKept]_vars

\* C27 witness: the web app appended a warning to a result that is not
\* written, next to a result with the same outcome list
C27_Witness ==
  \E a, b \in 1..Len(results) :
    /\ a # b
    /\ OutcomeList(results[a]) = OutcomeList(results[b])
    /\ ~results[a].can_auto_update
    /\ \E n \in 1..Len(results[a].warnings) : results[a].warnings[n] = "No nominal code mapping"

\* the sheet that update_po_record call k was made on, as the call found it
SheetBefore(k) == writes[k].before[WrittenRecord(k).sheet_name]

\* the reader detects a header on the sheet
ReaderDetects(ws) == ReaderHeaderRow(ws) # -1

\* the writer resolves the header row that the reader detects
SameHeader(ws) == _find_header_row(ws) = ReaderHeaderRow(ws) + 1

\* the spreadsheet row that call k addresses is the one from which the
\* reader builds the record with the row_index of the call
AddressesReadRow(k, ws) ==
  /\ writes[k].row = _find_header_row(ws) + WrittenRecord(k).row_index + 1
  /\ writes[k].row \in 1..Len(ws)
  /\ WrittenRecord(k).row_index + 1 \in 1..Len(DataFrame(ws, ReaderHeaderRow(ws)).data)
  /\ ws[writes[k].row] = DataFrame(ws, ReaderHeaderRow(ws)).data[WrittenRecord(k).row_index + 1]

\* C28: on every sheet layout in which the reader detects a header, the
\* writer's header detection resolves the same header row, so that the
\* row update_po_record addresses, header_row + row_index + 1, is the
\* spreadsheet row from which the reader built the record.
C28_WriterAddressesReadRow ==
  \A k \in 1..Len(writes) :
    ReaderDetects(SheetBefore(k)) =>
      SameHeader(SheetBefore(k)) /\ AddressesReadRow(k, SheetBefore(k))

\* validate call q matched its row by the invoice-number strategy
MatchedByNumber(q) ==
  /\ KnownType(InvoiceOf(q))
  /\ lookups[q].tried # <<>>
  /\ lookups[q].tried[Len(lookups[q].tried)] = "find_by_invoice_number"
  /\ ResultOf(q).po_record # <<>>

\* C29: every row returned by the invoice-number strategy is reported as
\* settled: the record's is_invoiced() is true, the result carries a
\* failing 'Duplicate Invoice Check' and is not auto-updated.
C29_NumberMatchIsSettled ==
  \A q \in 1..Len(lookups) :
    MatchedByNumber(q) =>
      /\ is_invoiced(ResultOf(q).po_record[1])
      /\ HasFailing(ResultOf(q), "Duplicate Invoice Check", ERROR)
      /\ ~ResultOf(q).can_auto_update

\* the report buckets: auto-updated, flagged for review, failed
ReportBuckets == {"auto", "flagged", "failed"}
InBucket(res, bucket) ==
  CASE bucket = "auto" -> res.can_auto_update
    [] bucket = "flagged" -> ~res.can_auto_update /\ res.is_valid
    [] bucket = "failed" -> ~res.is_valid

BucketsOf(res) == {bucket \in ReportBuckets : InBucket(res, bucket)}

\* C30: every result of validate or create_error is in exactly one of the
\* three report buckets; can_auto_update implies is_valid and a matched
\* row; is_valid is false iff the errors list is non-empty; and
\* get_status_summary is never 'UNKNOWN'.
C30_OneBucket ==
  \A k \in 1..Len(results) :
    /\ Cardinality(BucketsOf(results[k])) = 1
    /\ results[k].can_auto_update => (results[k].is_valid /\ results[k].po_record # <<>>)
    /\ ~results[k].is_valid <=> results[k].errors # <<>>
    /\ get_status_summary(results[k]) # "UNKNOWN"

\* C30 witness: a run with a result of create_error, in the failed
\* bucket, and an auto-updated result of validate that the web app
\* appended a warning to
C30_Witness ==
  \E a, b \in 1..Len(results) :
    /\ results[a].invoice = <<>>
    /\ BucketsOf(results[a]) = {"failed"}
    /\ get_status_summary(results[a]) = "ERROR"
    /\ BucketsOf(results[b]) = {"auto"}
    /\ results[b].warnings # <<>>
====
